---- MODULE Spec2Model ----
\* A model of wagtailmodeladmin/views.py: the URL-routed admin views
\* (index, inspect, create, choose-parent, edit, delete-confirm,
\* unpublish-redirect, copy-redirect) as a request/response state machine.
\*
\* Python strings are modelled as sequences of one-character strings, so that
\* quote(), int(), str.split(), str.rpartition() and str.startswith() are
\* computed the way the code computes them.  A character that a TLA+ string
\* cannot hold is written as its Python escape: "\\x0b" is the one character
\* '\x0b', "\\u0661" the one character '\u0661'.  None is the one-element
\* sequence <<"None">>, which no Python string of the model equals.
EXTENDS Integers, Sequences, FiniteSets, TLC

VARIABLES instances, rel_objects, session, is_pagemodel, integer_pk, resp,
          ord_in, ord_out, pg_in, pg_out, lk_in, lk_out

vars == <<instances, rel_objects, session, is_pagemodel, integer_pk, resp,
          ord_in, ord_out, pg_in, pg_out, lk_in, lk_out>>

----------------------------------------------------------------------------
\* Python values

None == <<"None">>

\* The decimal digits of Unicode (category Nd), by value: DecimalDigits[v + 1]
\* holds the characters int() reads as the digit v
DecimalDigits ==
    <<
      { "0", "\\u0660", "\\u06f0", "\\u07c0", "\\u0966", "\\u09e6", "\\u0a66",
        "\\u0ae6", "\\u0b66", "\\u0be6", "\\u0c66", "\\u0ce6", "\\u0d66",
        "\\u0de6", "\\u0e50", "\\u0ed0", "\\u0f20", "\\u1040", "\\u1090",
        "\\u17e0", "\\u1810", "\\u1946", "\\u19d0", "\\u1a80", "\\u1a90",
        "\\u1b50", "\\u1bb0", "\\u1c40", "\\u1c50", "\\ua620", "\\ua8d0",
        "\\ua900", "\\ua9d0", "\\ua9f0", "\\uaa50", "\\uabf0", "\\uff10",
        "\\U000104a0", "\\U00010d30", "\\U00011066", "\\U000110f0",
        "\\U00011136", "\\U000111d0", "\\U000112f0", "\\U00011450",
        "\\U000114d0", "\\U00011650", "\\U000116c0", "\\U00011730",
        "\\U000118e0", "\\U00011950", "\\U00011c50", "\\U00011d50",
        "\\U00011da0", "\\U00016a60", "\\U00016ac0", "\\U00016b50",
        "\\U0001d7ce", "\\U0001d7d8", "\\U0001d7e2", "\\U0001d7ec",
        "\\U0001d7f6", "\\U0001e140", "\\U0001e2f0", "\\U0001e950",
        "\\U0001fbf0" },
      { "1", "\\u0661", "\\u06f1", "\\u07c1", "\\u0967", "\\u09e7", "\\u0a67",
        "\\u0ae7", "\\u0b67", "\\u0be7", "\\u0c67", "\\u0ce7", "\\u0d67",
        "\\u0de7", "\\u0e51", "\\u0ed1", "\\u0f21", "\\u1041", "\\u1091",
        "\\u17e1", "\\u1811", "\\u1947", "\\u19d1", "\\u1a81", "\\u1a91",
        "\\u1b51", "\\u1bb1", "\\u1c41", "\\u1c51", "\\ua621", "\\ua8d1",
        "\\ua901", "\\ua9d1", "\\ua9f1", "\\uaa51", "\\uabf1", "\\uff11",
        "\\U000104a1", "\\U00010d31", "\\U00011067", "\\U000110f1",
        "\\U00011137", "\\U000111d1", "\\U000112f1", "\\U00011451",
        "\\U000114d1", "\\U00011651", "\\U000116c1", "\\U00011731",
        "\\U000118e1", "\\U00011951", "\\U00011c51", "\\U00011d51",
        "\\U00011da1", "\\U00016a61", "\\U00016ac1", "\\U00016b51",
        "\\U0001d7cf", "\\U0001d7d9", "\\U0001d7e3", "\\U0001d7ed",
        "\\U0001d7f7", "\\U0001e141", "\\U0001e2f1", "\\U0001e951",
        "\\U0001fbf1" },
      { "2", "\\u0662", "\\u06f2", "\\u07c2", "\\u0968", "\\u09e8", "\\u0a68",
        "\\u0ae8", "\\u0b68", "\\u0be8", "\\u0c68", "\\u0ce8", "\\u0d68",
        "\\u0de8", "\\u0e52", "\\u0ed2", "\\u0f22", "\\u1042", "\\u1092",
        "\\u17e2", "\\u1812", "\\u1948", "\\u19d2", "\\u1a82", "\\u1a92",
        "\\u1b52", "\\u1bb2", "\\u1c42", "\\u1c52", "\\ua622", "\\ua8d2",
        "\\ua902", "\\ua9d2", "\\ua9f2", "\\uaa52", "\\uabf2", "\\uff12",
        "\\U000104a2", "\\U00010d32", "\\U00011068", "\\U000110f2",
        "\\U00011138", "\\U000111d2", "\\U000112f2", "\\U00011452",
        "\\U000114d2", "\\U00011652", "\\U000116c2", "\\U00011732",
        "\\U000118e2", "\\U00011952", "\\U00011c52", "\\U00011d52",
        "\\U00011da2", "\\U00016a62", "\\U00016ac2", "\\U00016b52",
        "\\U0001d7d0", "\\U0001d7da", "\\U0001d7e4", "\\U0001d7ee",
        "\\U0001d7f8", "\\U0001e142", "\\U0001e2f2", "\\U0001e952",
        "\\U0001fbf2" },
      { "3", "\\u0663", "\\u06f3", "\\u07c3", "\\u0969", "\\u09e9", "\\u0a69",
        "\\u0ae9", "\\u0b69", "\\u0be9", "\\u0c69", "\\u0ce9", "\\u0d69",
        "\\u0de9", "\\u0e53", "\\u0ed3", "\\u0f23", "\\u1043", "\\u1093",
        "\\u17e3", "\\u1813", "\\u1949", "\\u19d3", "\\u1a83", "\\u1a93",
        "\\u1b53", "\\u1bb3", "\\u1c43", "\\u1c53", "\\ua623", "\\ua8d3",
        "\\ua903", "\\ua9d3", "\\ua9f3", "\\uaa53", "\\uabf3", "\\uff13",
        "\\U000104a3", "\\U00010d33", "\\U00011069", "\\U000110f3",
        "\\U00011139", "\\U000111d3", "\\U000112f3", "\\U00011453",
        "\\U000114d3", "\\U00011653", "\\U000116c3", "\\U00011733",
        "\\U000118e3", "\\U00011953", "\\U00011c53", "\\U00011d53",
        "\\U00011da3", "\\U00016a63", "\\U00016ac3", "\\U00016b53",
        "\\U0001d7d1", "\\U0001d7db", "\\U0001d7e5", "\\U0001d7ef",
        "\\U0001d7f9", "\\U0001e143", "\\U0001e2f3", "\\U0001e953",
        "\\U0001fbf3" },
      { "4", "\\u0664", "\\u06f4", "\\u07c4", "\\u096a", "\\u09ea", "\\u0a6a",
        "\\u0aea", "\\u0b6a", "\\u0bea", "\\u0c6a", "\\u0cea", "\\u0d6a",
        "\\u0dea", "\\u0e54", "\\u0ed4", "\\u0f24", "\\u1044", "\\u1094",
        "\\u17e4", "\\u1814", "\\u194a", "\\u19d4", "\\u1a84", "\\u1a94",
        "\\u1b54", "\\u1bb4", "\\u1c44", "\\u1c54", "\\ua624", "\\ua8d4",
        "\\ua904", "\\ua9d4", "\\ua9f4", "\\uaa54", "\\uabf4", "\\uff14",
        "\\U000104a4", "\\U00010d34", "\\U0001106a", "\\U000110f4",
        "\\U0001113a", "\\U000111d4", "\\U000112f4", "\\U00011454",
        "\\U000114d4", "\\U00011654", "\\U000116c4", "\\U00011734",
        "\\U000118e4", "\\U00011954", "\\U00011c54", "\\U00011d54",
        "\\U00011da4", "\\U00016a64", "\\U00016ac4", "\\U00016b54",
        "\\U0001d7d2", "\\U0001d7dc", "\\U0001d7e6", "\\U0001d7f0",
        "\\U0001d7fa", "\\U0001e144", "\\U0001e2f4", "\\U0001e954",
        "\\U0001fbf4" },
      { "5", "\\u0665", "\\u06f5", "\\u07c5", "\\u096b", "\\u09eb", "\\u0a6b",
        "\\u0aeb", "\\u0b6b", "\\u0beb", "\\u0c6b", "\\u0ceb", "\\u0d6b",
        "\\u0deb", "\\u0e55", "\\u0ed5", "\\u0f25", "\\u1045", "\\u1095",
        "\\u17e5", "\\u1815", "\\u194b", "\\u19d5", "\\u1a85", "\\u1a95",
        "\\u1b55", "\\u1bb5", "\\u1c45", "\\u1c55", "\\ua625", "\\ua8d5",
        "\\ua905", "\\ua9d5", "\\ua9f5", "\\uaa55", "\\uabf5", "\\uff15",
        "\\U000104a5", "\\U00010d35", "\\U0001106b", "\\U000110f5",
        "\\U0001113b", "\\U000111d5", "\\U000112f5", "\\U00011455",
        "\\U000114d5", "\\U00011655", "\\U000116c5", "\\U00011735",
        "\\U000118e5", "\\U00011955", "\\U00011c55", "\\U00011d55",
        "\\U00011da5", "\\U00016a65", "\\U00016ac5", "\\U00016b55",
        "\\U0001d7d3", "\\U0001d7dd", "\\U0001d7e7", "\\U0001d7f1",
        "\\U0001d7fb", "\\U0001e145", "\\U0001e2f5", "\\U0001e955",
        "\\U0001fbf5" },
      { "6", "\\u0666", "\\u06f6", "\\u07c6", "\\u096c", "\\u09ec", "\\u0a6c",
        "\\u0aec", "\\u0b6c", "\\u0bec", "\\u0c6c", "\\u0cec", "\\u0d6c",
        "\\u0dec", "\\u0e56", "\\u0ed6", "\\u0f26", "\\u1046", "\\u1096",
        "\\u17e6", "\\u1816", "\\u194c", "\\u19d6", "\\u1a86", "\\u1a96",
        "\\u1b56", "\\u1bb6", "\\u1c46", "\\u1c56", "\\ua626", "\\ua8d6",
        "\\ua906", "\\ua9d6", "\\ua9f6", "\\uaa56", "\\uabf6", "\\uff16",
        "\\U000104a6", "\\U00010d36", "\\U0001106c", "\\U000110f6",
        "\\U0001113c", "\\U000111d6", "\\U000112f6", "\\U00011456",
        "\\U000114d6", "\\U00011656", "\\U000116c6", "\\U00011736",
        "\\U000118e6", "\\U00011956", "\\U00011c56", "\\U00011d56",
        "\\U00011da6", "\\U00016a66", "\\U00016ac6", "\\U00016b56",
        "\\U0001d7d4", "\\U0001d7de", "\\U0001d7e8", "\\U0001d7f2",
        "\\U0001d7fc", "\\U0001e146", "\\U0001e2f6", "\\U0001e956",
        "\\U0001fbf6" },
      { "7", "\\u0667", "\\u06f7", "\\u07c7", "\\u096d", "\\u09ed", "\\u0a6d",
        "\\u0aed", "\\u0b6d", "\\u0bed", "\\u0c6d", "\\u0ced", "\\u0d6d",
        "\\u0ded", "\\u0e57", "\\u0ed7", "\\u0f27", "\\u1047", "\\u1097",
        "\\u17e7", "\\u1817", "\\u194d", "\\u19d7", "\\u1a87", "\\u1a97",
        "\\u1b57", "\\u1bb7", "\\u1c47", "\\u1c57", "\\ua627", "\\ua8d7",
        "\\ua907", "\\ua9d7", "\\ua9f7", "\\uaa57", "\\uabf7", "\\uff17",
        "\\U000104a7", "\\U00010d37", "\\U0001106d", "\\U000110f7",
        "\\U0001113d", "\\U000111d7", "\\U000112f7", "\\U00011457",
        "\\U000114d7", "\\U00011657", "\\U000116c7", "\\U00011737",
        "\\U000118e7", "\\U00011957", "\\U00011c57", "\\U00011d57",
        "\\U00011da7", "\\U00016a67", "\\U00016ac7", "\\U00016b57",
        "\\U0001d7d5", "\\U0001d7df", "\\U0001d7e9", "\\U0001d7f3",
        "\\U0001d7fd", "\\U0001e147", "\\U0001e2f7", "\\U0001e957",
        "\\U0001fbf7" },
      { "8", "\\u0668", "\\u06f8", "\\u07c8", "\\u096e", "\\u09ee", "\\u0a6e",
        "\\u0aee", "\\u0b6e", "\\u0bee", "\\u0c6e", "\\u0cee", "\\u0d6e",
        "\\u0dee", "\\u0e58", "\\u0ed8", "\\u0f28", "\\u1048", "\\u1098",
        "\\u17e8", "\\u1818", "\\u194e", "\\u19d8", "\\u1a88", "\\u1a98",
        "\\u1b58", "\\u1bb8", "\\u1c48", "\\u1c58", "\\ua628", "\\ua8d8",
        "\\ua908", "\\ua9d8", "\\ua9f8", "\\uaa58", "\\uabf8", "\\uff18",
        "\\U000104a8", "\\U00010d38", "\\U0001106e", "\\U000110f8",
        "\\U0001113e", "\\U000111d8", "\\U000112f8", "\\U00011458",
        "\\U000114d8", "\\U00011658", "\\U000116c8", "\\U00011738",
        "\\U000118e8", "\\U00011958", "\\U00011c58", "\\U00011d58",
        "\\U00011da8", "\\U00016a68", "\\U00016ac8", "\\U00016b58",
        "\\U0001d7d6", "\\U0001d7e0", "\\U0001d7ea", "\\U0001d7f4",
        "\\U0001d7fe", "\\U0001e148", "\\U0001e2f8", "\\U0001e958",
        "\\U0001fbf8" },
      { "9", "\\u0669", "\\u06f9", "\\u07c9", "\\u096f", "\\u09ef", "\\u0a6f",
        "\\u0aef", "\\u0b6f", "\\u0bef", "\\u0c6f", "\\u0cef", "\\u0d6f",
        "\\u0def", "\\u0e59", "\\u0ed9", "\\u0f29", "\\u1049", "\\u1099",
        "\\u17e9", "\\u1819", "\\u194f", "\\u19d9", "\\u1a89", "\\u1a99",
        "\\u1b59", "\\u1bb9", "\\u1c49", "\\u1c59", "\\ua629", "\\ua8d9",
        "\\ua909", "\\ua9d9", "\\ua9f9", "\\uaa59", "\\uabf9", "\\uff19",
        "\\U000104a9", "\\U00010d39", "\\U0001106f", "\\U000110f9",
        "\\U0001113f", "\\U000111d9", "\\U000112f9", "\\U00011459",
        "\\U000114d9", "\\U00011659", "\\U000116c9", "\\U00011739",
        "\\U000118e9", "\\U00011959", "\\U00011c59", "\\U00011d59",
        "\\U00011da9", "\\U00016a69", "\\U00016ac9", "\\U00016b59",
        "\\U0001d7d7", "\\U0001d7e1", "\\U0001d7eb", "\\U0001d7f5",
        "\\U0001d7ff", "\\U0001e149", "\\U0001e2f9", "\\U0001e959",
        "\\U0001fbf9" }
    >>

Digits == UNION {DecimalDigits[i] : i \in 1..10}

\* The value of every decimal digit
DigitValues ==
    [c \in Digits |-> (CHOOSE i \in 1..10 : c \in DecimalDigits[i]) - 1]

DigitVal(c) == DigitValues[c]

\* All sequences over alphabet A of length 0..n
RECURSIVE StringsUpTo(_, _)
StringsUpTo(A, n) ==
    IF n = 0 THEN {<<>>}
    ELSE LET shorter == StringsUpTo(A, n - 1)
         IN  shorter \cup {Append(s, c) : s \in shorter, c \in A}

\* str.startswith(prefix) for a one-character prefix
startswith(s, c) == Len(s) > 0 /\ s[1] = c

\* s[1:]
DropFirst(s) == IF Len(s) = 0 THEN <<>> ELSE SubSeq(s, 2, Len(s))

\* The value of a non-empty all-digit string
RECURSIVE DecimalValue(_)
DecimalValue(s) ==
    IF Len(s) = 0 THEN 0
    ELSE 10 * DecimalValue(SubSeq(s, 1, Len(s) - 1)) + DigitVal(s[Len(s)])

IsDigits(s) == Len(s) > 0 /\ \A i \in 1..Len(s) : s[i] \in Digits

\* The whitespace int() skips at both ends of its argument: the characters
\* of str.isspace() other than the separators '\x1c'..'\x1f'
Whitespace ==
    { "\t", "\n", "\\x0b", "\f", "\r", " ", "\\x85", "\\xa0", "\\u1680",
      "\\u2000", "\\u2001", "\\u2002", "\\u2003", "\\u2004", "\\u2005",
      "\\u2006", "\\u2007", "\\u2008", "\\u2009", "\\u200a", "\\u2028",
      "\\u2029", "\\u202f", "\\u205f", "\\u3000" }

\* str.lstrip() and str.rstrip()
RECURSIVE lstrip(_)
lstrip(s) ==
    IF Len(s) > 0 /\ s[1] \in Whitespace THEN lstrip(DropFirst(s)) ELSE s

RECURSIVE rstrip(_)
rstrip(s) ==
    IF Len(s) > 0 /\ s[Len(s)] \in Whitespace
    THEN rstrip(SubSeq(s, 1, Len(s) - 1)) ELSE s

strip(s) == rstrip(lstrip(s))

\* The digits of an integer literal: digits, with single '_' between them
IsLiteralDigits(s) ==
    /\ Len(s) > 0
    /\ s[1] \in Digits /\ s[Len(s)] \in Digits
    /\ \A i \in 1..Len(s) : s[i] \in Digits \/ s[i] = "_"
    /\ \A i \in 1..(Len(s) - 1) : ~(s[i] = "_" /\ s[i + 1] = "_")

\* s without its '_' characters
RECURSIVE without_underscores(_)
without_underscores(s) ==
    IF Len(s) = 0 THEN <<>>
    ELSE (IF s[1] = "_" THEN <<>> ELSE <<s[1]>>) \o without_underscores(DropFirst(s))

\* A stripped argument of int() without its sign
unsigned_literal(t) ==
    IF Len(t) > 0 /\ t[1] \in {"-", "+"} THEN DropFirst(t) ELSE t

\* The value of a stripped integer literal
literal_value(t) ==
    IF startswith(t, "-")
    THEN 0 - DecimalValue(without_underscores(DropFirst(t)))
    ELSE DecimalValue(without_underscores(unsigned_literal(t)))

\* Python's int(s) on a string: surrounding whitespace is skipped, then an
\* optional sign followed by decimal digits of any script (with single '_'
\* between digits); anything else raises ValueError.
int_raises(s) == ~IsLiteralDigits(unsigned_literal(strip(s)))

int(s) == literal_value(strip(s))

\* The characters django.contrib.admin.utils.quote escapes, with the two hex
\* digits of '_%02X' % ord(c).
QuoteHex ==
    [c \in {":", "/", "_", "#", "?", ";", "@", "&", "=", "+", "$", ",",
            "\"", "[", "]", "<", ">", "%", "\n", "\\"} |->
        CASE c = ":" -> <<"3", "A">> [] c = "/" -> <<"2", "F">>
          [] c = "_" -> <<"5", "F">> [] c = "#" -> <<"2", "3">>
          [] c = "?" -> <<"3", "F">> [] c = ";" -> <<"3", "B">>
          [] c = "@" -> <<"4", "0">> [] c = "&" -> <<"2", "6">>
          [] c = "=" -> <<"3", "D">> [] c = "+" -> <<"2", "B">>
          [] c = "$" -> <<"2", "4">> [] c = "," -> <<"2", "C">>
          [] c = "\"" -> <<"2", "2">> [] c = "[" -> <<"5", "B">>
          [] c = "]" -> <<"5", "D">> [] c = "<" -> <<"3", "C">>
          [] c = ">" -> <<"3", "E">> [] c = "%" -> <<"2", "5">>
          [] c = "\n" -> <<"0", "A">> [] c = "\\" -> <<"5", "C">>]

\* quote(s): every special character c becomes '_XX'
RECURSIVE quote(_)
quote(s) ==
    IF Len(s) = 0 THEN <<>>
    ELSE (IF s[1] \in DOMAIN QuoteHex THEN <<"_">> \o QuoteHex[s[1]] ELSE <<s[1]>>)
         \o quote(DropFirst(s))

----------------------------------------------------------------------------
\* The database, the session and the model admin

\* Primary keys of stored instances (strings, as they appear in a URL)
PkDomain == {<<"1">>, <<"_">>, <<"_", "5", "F">>}

\* The keys an integer key field can hold
NumericPks == {pk \in PkDomain : IsDigits(pk)}

\* The keys the key field of the model can hold (self.opts.pk)
StorablePks == IF integer_pk THEN NumericPks ELSE PkDomain

\* Object ids a request may carry: the keys, and another spelling of the
\* integer 1
ObjectIds == PkDomain \cup {<<"0", "1">>}

\* The model's reverse relations (self.model._meta.get_all_related_objects())
Relations ==
    << [name |-> "orders",   on_delete |-> "PROTECT"],
       [name |-> "notes",    on_delete |-> "CASCADE"],
       [name |-> "invoices", on_delete |-> "PROTECT"] >>

\* Related objects: one row of relation number rel pointing at instance
\* target.  The rows of the model all point at the instance "1".
RelRow(i) == [rel |-> i, target |-> <<"1">>]

\* Pages a user may be allowed to add a page under
ParentPages == {<<"1", "0">>, <<"1", "1">>}

IndexUrl == "index_url"

\* {}
EmptyDict == [k \in {} |-> <<>>]

EmptySession == EmptyDict

\* The response of the last request, with the trace of what the request did
NoResp ==
    [view |-> "none", method |-> "GET", object_id |-> <<>>, logged_in |-> FALSE,
     perm_checked |-> FALSE, perm_ok |-> FALSE,
     outcome |-> "none", target |-> "", target_arg |-> <<>>, template |-> "",
     exception |-> "", msgs |-> <<>>,
     session_written |-> FALSE, form_saved |-> FALSE, deleted |-> FALSE,
     post_empty |-> FALSE, protected |-> FALSE,
     error_protected |-> FALSE, linked_objects |-> <<>>,
     parent_count |-> 0, valid_parents |-> {}, chosen |-> None,
     form_parents |-> {}, form_is_valid |-> FALSE,
     query |-> EmptyDict, page_num |-> 0, page_number |-> 0, num_pages |-> 0,
     ordering |-> <<>>]

Request(view, method, object_id, logged_in) ==
    [NoResp EXCEPT !.view = view, !.method = method, !.object_id = object_id,
                   !.logged_in = logged_in]

\* permission_denied_response(request)
permission_denied_response(r) ==
    [r EXCEPT !.msgs = Append(@, "error"),
              !.outcome = "redirect", !.target = "wagtailadmin_home"]

\* @method_decorator(login_required): an anonymous user is sent to the login page
login_redirect(r) == [r EXCEPT !.outcome = "redirect", !.target = "login"]

\* get_object_or_404 found nothing: Http404 leaves __init__
http404(r) == [r EXCEPT !.outcome = "http404"]

render_to_response(r, template) == [r EXCEPT !.outcome = "render", !.template = template]

redirect(r, target, arg) ==
    [r EXCEPT !.outcome = "redirect", !.target = target, !.target_arg = arg]

\* An exception no handler of the view catches
raise(r, exc) == [r EXCEPT !.outcome = "exception", !.exception = exc]

\* View.dispatch: a method the view does not define is answered with 405
http_method_not_allowed(r) == [r EXCEPT !.outcome = "method_not_allowed"]

\* WMABaseView.prime_session_for_redirection
prime_session_for_redirection(s) == "return_to_index_url" :> IndexUrl

\* ObjectSpecificView.__init__: the instance is looked up by quote(object_id)
pk_safe(object_id) == quote(object_id)

\* .filter(**{pk_attname: pk_safe}): the lookup value of an integer key field
\* goes through int() and raises ValueError when it is no integer literal
filter_raises(object_id) == integer_pk /\ int_raises(pk_safe(object_id))

\* The keys of the stored instances as the key field holds them
stored_keys == IF integer_pk THEN {int(pk) : pk \in instances} ELSE instances

\* The lookup value as the key field takes it
key_value(value) == IF integer_pk THEN int(value) ELSE value

instance_found(object_id) == key_value(pk_safe(object_id)) \in stored_keys

\* self.instance = get_object_or_404(object_qs): the key of the stored
\* instance the lookup finds
instance_pk(object_id) ==
    CHOOSE pk \in instances : key_value(pk) = key_value(pk_safe(object_id))

\* The rows related to instance pk through relation number i (qs.all())
related_rows(pk, i) ==
    IF [rel |-> i, target |-> pk] \in rel_objects
    THEN <<[rel |-> i, target |-> pk]>> ELSE <<>>

\* django: instance.delete() raises ProtectedError when a PROTECT relation
\* still has rows pointing at the instance
delete_is_protected(pk) ==
    \E i \in 1..Len(Relations) :
        Relations[i].on_delete = "PROTECT" /\ related_rows(pk, i) # <<>>

\* A collection that forgets to test rel.on_delete: the rows of every relation
RECURSIVE linked_objects_from_any(_, _)
linked_objects_from_any(pk, i) ==
    IF i > Len(Relations) THEN <<>>
    ELSE related_rows(pk, i) \o linked_objects_from_any(pk, i + 1)

\* ConfirmDeleteView.post, the except branch: the rows of every PROTECT
\* relation, relation by relation
RECURSIVE linked_objects_from(_, _)
linked_objects_from(pk, i) ==
    IF i > Len(Relations) THEN <<>>
    ELSE (IF Relations[i].on_delete = "PROTECT" THEN related_rows(pk, i) ELSE <<>>)
         \o linked_objects_from(pk, i + 1)

linked_objects(pk) == linked_objects_from(pk, 1)

----------------------------------------------------------------------------
\* The views.  A view operator maps a request to the effect of handling it:
\* the response and the session and database it leaves behind.

Keep(r) ==
    [resp |-> r, session |-> session, instances |-> instances,
     rel_objects |-> rel_objects]

\* self.prime_session_for_redirection() followed by the response r
Primed(r) ==
    [Keep([r EXCEPT !.session_written = TRUE])
        EXCEPT !.session = prime_session_for_redirection(session)]

check_permission(r, permitted) == [r EXCEPT !.perm_checked = TRUE, !.perm_ok = permitted]

Methods == {"GET", "POST"}

\* WMAFormView.form_valid: form.save(), a success message, redirect to the index
form_valid(r, saved_pk) ==
    [Keep(redirect([r EXCEPT !.form_saved = TRUE, !.msgs = Append(@, "success")],
                   "index", <<>>))
        EXCEPT !.instances = instances \cup {saved_pk}]

\* WMAFormView.form_invalid: an error message and the form again
form_invalid(r, template) ==
    Keep(render_to_response([r EXCEPT !.msgs = Append(@, "error")], template))

\* WMABaseView.dispatch (login_required) of a form view, then FormView's
\* get / post
WMAFormView_dispatch(r, is_valid, saved_pk, template) ==
    IF ~r.logged_in THEN Keep(login_redirect(r))
    ELSE IF r.method = "GET" THEN Keep(render_to_response(r, template))
    ELSE IF is_valid THEN form_valid(r, saved_pk)
    ELSE form_invalid(r, template)

\* WMABaseView.dispatch (login_required) of a template view that defines get only
TemplateView_dispatch(r, template) ==
    IF ~r.logged_in THEN Keep(login_redirect(r))
    ELSE IF r.method = "GET" THEN Keep(render_to_response(r, template))
    ELSE Keep(http_method_not_allowed(r))

\* ObjectSpecificView.__init__ runs before dispatch: ValueError when
\* quote(object_id) is no value of the key field, Http404 when the lookup by
\* quote(object_id) finds nothing
ObjectSpecificView_init(r, dispatched) ==
    IF filter_raises(r.object_id) THEN Keep(raise(r, "ValueError"))
    ELSE IF ~instance_found(r.object_id) THEN Keep(http404(r))
    ELSE dispatched

\* InspectView.dispatch
InspectView_dispatch(r, permitted) ==
    IF ~r.logged_in THEN Keep(login_redirect(r))
    ELSE LET r1 == check_permission(r, permitted)
         IN  IF ~permitted THEN Keep(permission_denied_response(r1))
             ELSE TemplateView_dispatch(r1, "inspect")

\* A dispatch that sends the user under some valid parent whenever there is one
CreateView_dispatch_any_parent(r, permitted, valid_parents, is_valid, new_pk) ==
    LET r1 == [check_permission(r, permitted)
                  EXCEPT !.parent_count = Cardinality(valid_parents),
                         !.valid_parents = valid_parents]
    IN  IF ~permitted THEN Keep(permission_denied_response(r1))
        ELSE IF is_pagemodel
        THEN IF Cardinality(valid_parents) >= 1
             THEN Primed(redirect(r1, "pages_add",
                                  CHOOSE parent \in valid_parents : TRUE))
             ELSE Primed(redirect(r1, "choose_parent", <<>>))
        ELSE WMAFormView_dispatch(r1, is_valid, new_pk, "create")

\* CreateView.dispatch
CreateView_dispatch(r, permitted, valid_parents, is_valid, new_pk) ==
    LET r1 == [check_permission(r, permitted)
                  EXCEPT !.parent_count = Cardinality(valid_parents),
                         !.valid_parents = valid_parents]
    IN  IF ~permitted THEN Keep(permission_denied_response(r1))
        ELSE IF is_pagemodel
        THEN IF Cardinality(valid_parents) = 1
             THEN Primed(redirect(r1, "pages_add",
                                  CHOOSE parent \in valid_parents : TRUE))
             ELSE Primed(redirect(r1, "choose_parent", <<>>))
        ELSE WMAFormView_dispatch(r1, is_valid, new_pk, "create")

\* ChooseParentView.get_form: the form is built on the pages
\* get_valid_parent_pages(request.user) returns
get_form(r, valid_parents) ==
    [r EXCEPT !.parent_count = Cardinality(valid_parents),
              !.valid_parents = valid_parents,
              !.form_parents = valid_parents]

\* ChooseParentView.dispatch, get and post.  is_valid is what form.is_valid()
\* answers and parent is form.cleaned_data['parent_page']: the form is
\* defined outside this module, so that both are given
ChooseParentView_dispatch(r, permitted, valid_parents, is_valid, parent) ==
    LET r1 == check_permission(r, permitted)
        r2 == get_form(r1, valid_parents)
    IN  IF ~permitted THEN Keep(permission_denied_response(r1))
        ELSE IF ~r.logged_in THEN Keep(login_redirect(r1))
        ELSE IF r.method = "GET" THEN Keep(render_to_response(r2, "choose_parent"))
        ELSE IF is_valid
        THEN Keep(redirect([r2 EXCEPT !.form_is_valid = TRUE, !.chosen = parent],
                           "pages_add", quote(parent)))
        ELSE Keep(render_to_response(r2, "choose_parent"))

\* A dispatch that redirects a page model without priming the session
EditView_dispatch_unprimed(r, permitted, is_valid) ==
    IF ~r.logged_in THEN Keep(login_redirect(r))
    ELSE LET r1 == check_permission(r, permitted)
         IN  IF ~permitted THEN Keep(permission_denied_response(r1))
             ELSE IF is_pagemodel
             THEN Keep(redirect(r1, "pages_edit", r.object_id))
             ELSE WMAFormView_dispatch(r1, is_valid, instance_pk(r.object_id), "edit")

\* EditView.dispatch
EditView_dispatch(r, permitted, is_valid) ==
    IF ~r.logged_in THEN Keep(login_redirect(r))
    ELSE LET r1 == check_permission(r, permitted)
         IN  IF ~permitted THEN Keep(permission_denied_response(r1))
             ELSE IF is_pagemodel
             THEN Primed(redirect(r1, "pages_edit", r.object_id))
             ELSE WMAFormView_dispatch(r1, is_valid, instance_pk(r.object_id), "edit")

\* ConfirmDeleteView.delete_instance, when nothing protects the instance:
\* the instance and the rows pointing at it are gone
delete_instance(e, pk) ==
    [e EXCEPT !.instances = instances \ {pk},
              !.rel_objects = {o \in rel_objects : o.target # pk}]

\* ConfirmDeleteView.post
ConfirmDeleteView_post(r, post_empty) ==
    LET pk == instance_pk(r.object_id)
        r1 == [r EXCEPT !.post_empty = post_empty,
                        !.protected = delete_is_protected(pk)]
    IN  IF post_empty
        THEN \* 'context' was never assigned
             Keep(raise(r1, "UnboundLocalError"))
        ELSE IF delete_is_protected(pk)
        THEN Keep(render_to_response(
                    [r1 EXCEPT !.msgs = Append(@, "error"),
                               !.error_protected = TRUE,
                               !.linked_objects = linked_objects(pk)],
                    "confirm_delete"))
        ELSE delete_instance(
                 Keep(redirect([r1 EXCEPT !.deleted = TRUE,
                                          !.msgs = Append(@, "success")],
                               "index", <<>>)), pk)

\* A dispatch that tests is_pagemodel before the permission
ConfirmDeleteView_dispatch_page_first(r, permitted, post_empty) ==
    IF ~r.logged_in THEN Keep(login_redirect(r))
    ELSE LET r1 == check_permission(r, permitted)
         IN  IF is_pagemodel
             THEN Primed(redirect(r1, "pages_delete", r.object_id))
             ELSE IF ~permitted THEN Keep(permission_denied_response(r1))
             ELSE IF r.method = "GET"
             THEN Keep(render_to_response(r1, "confirm_delete"))
             ELSE ConfirmDeleteView_post(r1, post_empty)

\* ConfirmDeleteView.dispatch
ConfirmDeleteView_dispatch(r, permitted, post_empty) ==
    IF ~r.logged_in THEN Keep(login_redirect(r))
    ELSE LET r1 == check_permission(r, permitted)
         IN  IF ~permitted THEN Keep(permission_denied_response(r1))
             ELSE IF is_pagemodel
             THEN Primed(redirect(r1, "pages_delete", r.object_id))
             ELSE IF r.method = "GET"
             THEN Keep(render_to_response(r1, "confirm_delete"))
             ELSE ConfirmDeleteView_post(r1, post_empty)

\* UnpublishRedirectView.dispatch
UnpublishRedirectView_dispatch(r, permitted) ==
    IF ~r.logged_in THEN Keep(login_redirect(r))
    ELSE LET r1 == check_permission(r, permitted)
         IN  IF ~permitted THEN Keep(permission_denied_response(r1))
             ELSE Primed(redirect(r1, "pages_unpublish", r.object_id))

\* CopyRedirectView.dispatch
CopyRedirectView_dispatch(r, permitted) ==
    IF ~r.logged_in THEN Keep(login_redirect(r))
    ELSE LET r1 == check_permission(r, permitted)
         IN  IF ~permitted THEN Keep(permission_denied_response(r1))
             ELSE Primed(redirect(r1, "pages_copy", r.object_id))

----------------------------------------------------------------------------
\* IndexView: ordering

\* Names are Python strings too
S_pk == <<"p", "k">>
S_id == <<"i", "d">>
S_a == <<"a">>
Minus(name) == <<"-">> \o name

\* self.opts.pk.name
pk_name == S_id

\* The attname of a field whose attname is not its name: the column of the
\* foreign key f is f_id
S_f_id == <<"f", "_", "i", "d">>

FieldAttnames == (S_f_id :> <<"f">>)

\* The names self.opts.get_field resolves: the primary key, a column, a
\* foreign key by its name and by its attname, and the reverse relation of
\* a foreign key of another model
FieldNames == {S_id, S_a, <<"f">>, <<"r">>} \cup DOMAIN FieldAttnames

\* self.opts.get_field(name).name
get_field_name(name) ==
    IF name \in DOMAIN FieldAttnames THEN FieldAttnames[name] ELSE name

\* Attributes of the model admin and of the model that are not fields, with
\* their admin_order_field (None when the attribute has none)
AdminAttrs == (<<"m">> :> Minus(S_a)) @@ (<<"n">> :> None)

ModelAttrs == (<<"t">> :> S_a) @@ (<<"u">> :> None)

\* An entry of list_display: a name, or a callable with its admin_order_field
Column(name) == [callable |-> FALSE, name |-> name, admin_order_field |-> None]

Callable(order_field) ==
    [callable |-> TRUE, name |-> <<"c">>, admin_order_field |-> order_field]

\* The outcome of a call: a returned value or a raised exception
Return(v) == [exc |-> "", value |-> v]

Raise(exc) == [exc |-> exc, value |-> None]

\* getattr(self.model, field_name): AttributeError when the model has no
\* such attribute, else the attribute's admin_order_field
model_getattr(field_name) ==
    IF field_name \in DOMAIN ModelAttrs THEN Return(ModelAttrs[field_name])
    ELSE Raise("AttributeError")

\* IndexView.get_ordering_field
get_ordering_field(field_name) ==
    IF ~field_name.callable /\ field_name.name \in FieldNames
    THEN Return(get_field_name(field_name.name))
    ELSE IF field_name.callable THEN Return(field_name.admin_order_field)
    ELSE IF field_name.name \in DOMAIN AdminAttrs
    THEN Return(AdminAttrs[field_name.name])
    ELSE model_getattr(field_name.name)

\* IndexView.get_default_ordering
get_default_ordering(admin_ordering, meta_ordering) ==
    IF admin_ordering # <<>> THEN admin_ordering
    ELSE IF meta_ordering # <<>> THEN meta_ordering
    ELSE <<>>

\* s.split(sep)
RECURSIVE split_from(_, _, _)
split_from(s, sep, cur) ==
    IF Len(s) = 0 THEN <<cur>>
    ELSE IF Len(s) >= Len(sep) /\ SubSeq(s, 1, Len(sep)) = sep
    THEN <<cur>> \o split_from(SubSeq(s, Len(sep) + 1, Len(s)), sep, <<>>)
    ELSE split_from(DropFirst(s), sep, Append(cur, s[1]))

split(s, sep) == split_from(s, sep, <<>>)

\* sep.join(parts)
RECURSIVE join(_, _)
join(sep, parts) ==
    IF Len(parts) = 0 THEN <<>>
    ELSE IF Len(parts) = 1 THEN parts[1]
    ELSE parts[1] \o sep \o join(sep, Tail(parts))

\* list[i] for a Python index i: counted from the end when negative,
\* IndexError when out of range
index_raises(list, i) == i >= Len(list) \/ i < 0 - Len(list)

index(list, i) == IF i >= 0 THEN list[i + 1] ELSE list[Len(list) + i + 1]

\* The position of the last sep in s, 0 when there is none
last_index(s, sep) ==
    IF \E i \in 1..Len(s) : s[i] = sep
    THEN CHOOSE i \in 1..Len(s) : s[i] = sep /\ \A j \in (i + 1)..Len(s) : s[j] # sep
    ELSE 0

\* s.rpartition(sep) == (head, sep, tail), ('', '', s) when sep is not in s
rpartition(s, sep) ==
    LET i == last_index(s, sep)
    IN  IF i = 0 THEN <<<<>>, <<>>, s>>
        ELSE <<SubSeq(s, 1, i - 1), <<sep>>, SubSeq(s, i + 1, Len(s))>>

\* A loop body that always prepends the prefix of the entry
order_param_fields_prefixed(p, list_display) ==
    LET part == rpartition(p, "-")
        pfx  == part[2]
        idx  == part[3]
        i    == int(idx)
    IN  IF int_raises(idx) THEN Return(<<>>)
        ELSE IF index_raises(list_display, i) THEN Return(<<>>)
        ELSE LET got == get_ordering_field(index(list_display, i))
                 order_field == got.value
             IN  IF got.exc # "" THEN Raise(got.exc)
                 ELSE IF order_field = None \/ order_field = <<>> THEN Return(<<>>)
                 ELSE Return(<<pfx \o order_field>>)

\* The body of the loop over order_params for one entry p: what it appends
\* to ordering (nothing when the entry is skipped), or the exception that
\* leaves the loop
order_param_fields(p, list_display) ==
    LET part == rpartition(p, "-")
        pfx  == part[2]
        idx  == part[3]
        i    == int(idx)
    IN  IF int_raises(idx) THEN Return(<<>>)                     \* ValueError
        ELSE IF index_raises(list_display, i) THEN Return(<<>>)  \* IndexError
        ELSE LET got == get_ordering_field(index(list_display, i))
                 order_field == got.value
             IN  IF got.exc # "" THEN Raise(got.exc)
                 ELSE IF order_field = None \/ order_field = <<>> THEN Return(<<>>)
                 ELSE IF startswith(order_field, "-") /\ pfx = <<"-">>
                 THEN Return(<<DropFirst(order_field)>>)
                 ELSE Return(<<pfx \o order_field>>)

RECURSIVE order_params_fields(_, _)
order_params_fields(order_params, list_display) ==
    IF Len(order_params) = 0 THEN Return(<<>>)
    ELSE LET first == order_param_fields(order_params[1], list_display)
             rest  == order_params_fields(Tail(order_params), list_display)
         IN  IF first.exc # "" THEN first
             ELSE IF rest.exc # "" THEN rest
             ELSE Return(first.value \o rest.value)

Elements(seq) == {seq[i] : i \in 1..Len(seq)}

\* A guard that appends '-pk' whatever the ordering names
pk_guard_always(ordering) == Append(ordering, Minus(S_pk))

\* The end of get_ordering: '-pk' is appended unless the ordering already
\* names the primary key
pk_guard(ordering) ==
    IF Elements(ordering) \cap {S_pk, Minus(S_pk), pk_name, Minus(pk_name)} = {}
    THEN Append(ordering, Minus(S_pk))
    ELSE ordering

\* A get_ordering that does not clear the default ordering when 'o' is given
get_ordering_keeps_default(o, list_display, admin_ordering, meta_ordering, order_by) ==
    LET default == get_default_ordering(admin_ordering, meta_ordering)
        fields  == order_params_fields(split(o, <<".">>), list_display)
        manual  == IF o = None THEN Return(default)
                   ELSE IF fields.exc # "" THEN fields
                   ELSE Return(default \o fields.value)
    IN  IF manual.exc # "" THEN manual
        ELSE Return(pk_guard(manual.value \o order_by))

\* IndexView.get_ordering; o is params.get('o'), None when 'o' is absent
get_ordering(o, list_display, admin_ordering, meta_ordering, order_by) ==
    LET default == get_default_ordering(admin_ordering, meta_ordering)
        manual  == IF o = None THEN Return(default)
                   ELSE order_params_fields(split(o, <<".">>), list_display)
    IN  IF manual.exc # "" THEN manual
        ELSE Return(pk_guard(manual.value \o order_by))

----------------------------------------------------------------------------
\* IndexView: pagination

\* dispatch: self.page_num = int(request.GET.get('p', 0)), 0 on ValueError
page_num_of(p) == IF p = None THEN 0 ELSE IF int_raises(p) THEN 0 ELSE int(p)

\* django Paginator.num_pages with orphans = 0, allow_empty_first_page = True
num_pages(count, per_page) ==
    LET hits == IF count > 1 THEN count ELSE 1
    IN  (hits + per_page - 1) \div per_page

\* Paginator.validate_number: InvalidPage unless 1 <= number <= num_pages
is_invalid_page(number, count, per_page) ==
    number < 1 \/ (number > num_pages(count, per_page) /\ number # 1)

\* A get_context_data that does not catch InvalidPage
page_number_unchecked(page_num, count, per_page) == page_num + 1

\* get_context_data: page_obj = paginator.page(page_num + 1), page 1 on InvalidPage
page_number_shown(page_num, count, per_page) ==
    IF is_invalid_page(page_num + 1, count, per_page) THEN 1 ELSE page_num + 1

----------------------------------------------------------------------------
\* IndexView: query-string parameters, lookups and filters

ORDER_VAR == <<"o">>
ORDER_TYPE_VAR == <<"o", "t">>
PAGE_VAR == <<"p">>
SEARCH_VAR == <<"q">>
ERROR_FLAG == <<"e">>
IGNORED_PARAMS == {ORDER_VAR, ORDER_TYPE_VAR, SEARCH_VAR}

LOOKUP_SEP == <<"_", "_">>

S_exact == <<"e", "x", "a", "c", "t">>
S_isnull == <<"i", "s", "n", "u", "l", "l">>
S_f == <<"f">>
S_r == <<"r">>
S_name == <<"n", "a", "m", "e">>
S_g == <<"g">>

\* django.db.models.sql.constants.QUERY_TERMS
QUERY_TERMS ==
    { S_exact,
      <<"i", "e", "x", "a", "c", "t">>,
      <<"c", "o", "n", "t", "a", "i", "n", "s">>,
      <<"i", "c", "o", "n", "t", "a", "i", "n", "s">>,
      <<"g", "t">>,
      <<"g", "t", "e">>,
      <<"l", "t">>,
      <<"l", "t", "e">>,
      <<"i", "n">>,
      <<"s", "t", "a", "r", "t", "s", "w", "i", "t", "h">>,
      <<"i", "s", "t", "a", "r", "t", "s", "w", "i", "t", "h">>,
      <<"e", "n", "d", "s", "w", "i", "t", "h">>,
      <<"i", "e", "n", "d", "s", "w", "i", "t", "h">>,
      <<"r", "a", "n", "g", "e">>,
      <<"y", "e", "a", "r">>,
      <<"m", "o", "n", "t", "h">>,
      <<"d", "a", "y">>,
      <<"w", "e", "e", "k", "_", "d", "a", "y">>,
      <<"h", "o", "u", "r">>,
      <<"m", "i", "n", "u", "t", "e">>,
      <<"s", "e", "c", "o", "n", "d">>,
      S_isnull,
      <<"s", "e", "a", "r", "c", "h">>,
      <<"r", "e", "g", "e", "x">>,
      <<"i", "r", "e", "g", "e", "x">> }

S_g_id == <<"g", "_", "i", "d">>

\* self.model._meta.get_field_by_name: what kind of field a name is.
\* "plain" has rel None, "fk" has a rel, "reverse" is a ForeignObjectRel.
\* A foreign key is found by its name and by its attname
FieldKinds ==
    (S_id :> "plain") @@ (S_a :> "plain") @@ (S_f :> "fk") @@ (S_f_id :> "fk")
        @@ (S_r :> "reverse")

\* field.rel.to / field.model: the fields of the model a relation leads to.
\* g is a foreign key of that model to itself, found by its name and by its
\* attname
RelatedFieldKinds ==
    (S_id :> "plain") @@ (S_name :> "plain") @@ (S_g :> "fk") @@ (S_g_id :> "fk")

\* d.get(key), None when the key is absent
dict_get(d, key) == IF key \in DOMAIN d THEN d[key] ELSE None

\* A dict without some keys
dict_without(d, keys) == [k \in (DOMAIN d) \ keys |-> d[k]]

Last(seq) == seq[Len(seq)]

Front(seq) == SubSeq(seq, 1, Len(seq) - 1)

\* The loop of lookup_allowed over parts[:-1]: either the early 'return
\* True', or the rel_name the loop ends with
RECURSIVE lookup_scan(_, _, _)
lookup_scan(parts, i, rel_name) ==
    IF i > Len(parts) - 1 THEN [allowed |-> FALSE, rel_name |-> rel_name]
    ELSE IF parts[i] \notin DOMAIN FieldKinds          \* FieldDoesNotExist
    THEN [allowed |-> TRUE, rel_name |-> rel_name]
    ELSE IF FieldKinds[parts[i]] = "plain"             \* field.rel is None
    THEN [allowed |-> TRUE, rel_name |-> rel_name]
    ELSE lookup_scan(parts, i + 1, S_id)

\* IndexView.lookup_allowed
lookup_allowed(lookup, value, list_filter, related_fkey_lookups) ==
    IF <<lookup, value>> \in related_fkey_lookups THEN TRUE
    ELSE LET parts0 == split(lookup, LOOKUP_SEP)
             parts1 == IF Len(parts0) > 1 /\ Last(parts0) \in QUERY_TERMS
                       THEN Front(parts0) ELSE parts0
             scan   == lookup_scan(parts1, 1, None)
             parts2 == IF scan.rel_name # None /\ Len(parts1) > 1
                          /\ Last(parts1) = scan.rel_name
                       THEN Front(parts1) ELSE parts1
         IN  IF scan.allowed THEN TRUE
             ELSE IF Len(parts2) = 1 THEN TRUE
             ELSE join(LOOKUP_SEP, parts2) \in Elements(list_filter)

\* IndexView.get_filters_params
get_filters_params(params) == dict_without(params, IGNORED_PARAMS)

\* get_fields_from_path(self.model, field_path)[-1]: the kind of the field a
\* list_filter path ends in, or the exception the path raises
RECURSIVE last_field_kind(_, _, _)
last_field_kind(parts, i, kinds) ==
    IF parts[i] \notin DOMAIN kinds THEN "FieldDoesNotExist"
    ELSE IF i = Len(parts) THEN kinds[parts[i]]
    ELSE IF kinds[parts[i]] = "plain" THEN "NotRelationField"
    ELSE last_field_kind(parts, i + 1, RelatedFieldKinds)

get_fields_from_path(field_path) ==
    last_field_kind(split(field_path, LOOKUP_SEP), 1, FieldKinds)

\* The exception of the first list_filter entry whose path does not lead to
\* a field, "" when every entry does
RECURSIVE list_filter_error(_, _)
list_filter_error(list_filter, i) ==
    IF i > Len(list_filter) THEN ""
    ELSE IF get_fields_from_path(list_filter[i]) \in {"FieldDoesNotExist", "NotRelationField"}
    THEN get_fields_from_path(list_filter[i])
    ELSE list_filter_error(list_filter, i + 1)

\* FieldListFilter.expected_parameters() of the filter built for one
\* list_filter entry: the parameters the filter takes out of lookup_params.
\* A path that ends in a relation gets a RelatedFieldListFilter
expected_parameters(field_path) ==
    IF get_fields_from_path(field_path) \in {"fk", "reverse"}
    THEN {join(LOOKUP_SEP, <<field_path, S_id, S_exact>>),
          join(LOOKUP_SEP, <<field_path, S_isnull>>)}
    ELSE {field_path, join(LOOKUP_SEP, <<field_path, S_isnull>>)}

used_parameters(list_filter) ==
    UNION {expected_parameters(f) : f \in Elements(list_filter)}

\* str.endswith(suffix)
endswith(s, suffix) ==
    /\ Len(s) >= Len(suffix)
    /\ SubSeq(s, Len(s) - Len(suffix) + 1, Len(s)) = suffix

S_in == <<"i", "n">>

\* value.lower() in ('', 'false', '0')
is_false_literal(value) ==
    \/ value = <<>>
    \/ value = <<"0">>
    \/ /\ Len(value) = 5
       /\ value[1] \in {"f", "F"} /\ value[2] \in {"a", "A"}
       /\ value[3] \in {"l", "L"} /\ value[4] \in {"s", "S"}
       /\ value[5] \in {"e", "E"}

\* django.contrib.admin.utils.prepare_lookup_value: the value of an '__in'
\* lookup becomes the list of its comma-separated items, the value of an
\* '__isnull' lookup a boolean
prepare_lookup_value(key, value) ==
    IF endswith(key, LOOKUP_SEP \o S_in) THEN split(value, <<",">>)
    ELSE IF endswith(key, LOOKUP_SEP \o S_isnull) THEN ~is_false_literal(value)
    ELSE value

\* The filters get_filters builds for list_filter[i..], in order: each takes
\* its expected parameters out of lookup_params (FieldListFilter.__init__)
RECURSIVE build_filter_specs(_, _, _)
build_filter_specs(list_filter, i, lookup_params) ==
    IF i > Len(list_filter)
    THEN [specs |-> <<>>, lookup_params |-> lookup_params]
    ELSE LET taken == expected_parameters(list_filter[i]) \cap DOMAIN lookup_params
             spec  == [field_path |-> list_filter[i],
                       used_parameters |->
                           [p \in taken |-> prepare_lookup_value(p, lookup_params[p])]]
             rest  == build_filter_specs(list_filter, i + 1,
                                         dict_without(lookup_params, taken))
         IN  [specs |-> <<spec>> \o rest.specs, lookup_params |-> rest.lookup_params]

\* 'if spec and spec.has_output()': the filters get_filters keeps
RECURSIVE kept_specs(_, _)
kept_specs(specs, with_output) ==
    IF Len(specs) = 0 THEN <<>>
    ELSE (IF specs[1].field_path \in with_output THEN <<specs[1]>> ELSE <<>>)
         \o kept_specs(Tail(specs), with_output)

\* lookup_path.split('__', 1)[0]
first_field(lookup_path) == split(lookup_path, LOOKUP_SEP)[1]

\* lookup_needs_distinct(self.opts, key) raises FieldDoesNotExist when the
\* first part of the key is no field of the model
lookup_needs_distinct_raises(key) == first_field(key) \notin DOMAIN FieldKinds

\* lookup_needs_distinct(self.opts, lookup_path): the first part of the path
\* is a relation that can lead to several rows
lookup_needs_distinct(lookup_path) == FieldKinds[first_field(lookup_path)] = "reverse"

\* use_distinct after the loop over list_filter
filters_use_distinct(list_filter) ==
    \E i \in 1..Len(list_filter) : lookup_needs_distinct(list_filter[i])

\* The loop over lookup_params.items(): 'use_distinct or lookup_needs_distinct'
\* looks a key up only while use_distinct is False.  The exception the loop
\* raises, or use_distinct after it
RECURSIVE lookups_use_distinct(_, _, _)
lookups_use_distinct(keys, i, use_distinct) ==
    IF i > Len(keys) \/ use_distinct THEN Return(use_distinct)
    ELSE IF lookup_needs_distinct_raises(keys[i])
    THEN Raise("IncorrectLookupParameters")     \* from FieldDoesNotExist
    ELSE lookups_use_distinct(keys, i + 1, lookup_needs_distinct(keys[i]))

\* The keys of a dict in the order the dict yields them
RECURSIVE keys_of(_, _)
keys_of(keys, d) ==
    IF Len(keys) = 0 THEN <<>>
    ELSE (IF keys[1] \in DOMAIN d THEN <<keys[1]>> ELSE <<>>) \o keys_of(Tail(keys), d)

\* IndexView.get_filters: the exception it raises, or what it returns.  keys
\* is the order in which self.params yields its keys, with_output the
\* list_filter entries whose filter has output (spec.has_output())
get_filters(params, keys, list_filter, related_fkey_lookups, with_output) ==
    LET lookup_params == get_filters_params(params)
        built == build_filter_specs(list_filter, 1, lookup_params)
        filter_specs == kept_specs(built.specs, with_output)
        error == list_filter_error(list_filter, 1)
        distinct == lookups_use_distinct(keys_of(keys, built.lookup_params), 1,
                                         filters_use_distinct(list_filter))
    IN  IF \E key \in DOMAIN lookup_params :
              ~lookup_allowed(key, lookup_params[key], list_filter,
                              related_fkey_lookups)
        THEN Raise("DisallowedModelAdminLookup")
        ELSE IF error # "" THEN Raise(error)
        ELSE IF distinct.exc # "" THEN distinct
        ELSE Return([filter_specs |-> filter_specs,
                     has_filters |-> Len(filter_specs) > 0,
                     lookup_params |->
                         [k \in DOMAIN built.lookup_params |->
                             prepare_lookup_value(k, built.lookup_params[k])],
                     use_distinct |-> distinct.value])

\* Query.names_to_path: 'pk' names the key of a model
model_field(name) == IF name = S_pk THEN pk_name ELSE name

\* The type of the values a field holds: a relation holds the key of the
\* related model, which is an AutoField
field_type(kinds, name) ==
    IF kinds[name] # "plain" THEN "int"
    ELSE IF name # pk_name THEN "char"
    ELSE IF kinds = FieldKinds /\ ~integer_pk THEN "char"
    ELSE "int"

\* Query.names_to_path from parts[i] on: the field the path ends in and the
\* parts that are left over as lookups.  A part that is no field of the model
\* reached so far ends the path, and so does a field that is no relation
RECURSIVE names_to_path(_, _, _)
names_to_path(parts, i, kinds) ==
    LET name == model_field(parts[i])
        rest == SubSeq(parts, i + 1, Len(parts))
    IN  IF name \notin DOMAIN kinds
        THEN [found |-> FALSE, kind |-> "", type |-> "", lookups |-> rest]
        ELSE IF \/ i = Len(parts)
                \/ kinds[name] = "plain"
                \/ model_field(parts[i + 1]) \notin DOMAIN RelatedFieldKinds
        THEN [found |-> TRUE, kind |-> kinds[name],
              type |-> field_type(kinds, name), lookups |-> rest]
        ELSE names_to_path(parts, i + 1, RelatedFieldKinds)

S_range == <<"r", "a", "n", "g", "e">>
S_year == <<"y", "e", "a", "r">>

\* The lookups a relation takes (ForeignObject.get_lookup_constraint)
RelationTerms ==
    { S_exact, S_isnull, S_in, S_range,
      <<"g", "t">>, <<"g", "t", "e">>, <<"l", "t">>, <<"l", "t", "e">> }

\* The lookups whose value Field.get_prep_lookup leaves as it is
UnpreparedTerms ==
    { S_isnull,
      <<"i", "e", "x", "a", "c", "t">>,
      <<"c", "o", "n", "t", "a", "i", "n", "s">>,
      <<"i", "c", "o", "n", "t", "a", "i", "n", "s">>,
      <<"s", "t", "a", "r", "t", "s", "w", "i", "t", "h">>,
      <<"i", "s", "t", "a", "r", "t", "s", "w", "i", "t", "h">>,
      <<"e", "n", "d", "s", "w", "i", "t", "h">>,
      <<"i", "e", "n", "d", "s", "w", "i", "t", "h">>,
      <<"m", "o", "n", "t", "h">>,
      <<"d", "a", "y">>,
      <<"w", "e", "e", "k", "_", "d", "a", "y">>,
      <<"h", "o", "u", "r">>,
      <<"m", "i", "n", "u", "t", "e">>,
      <<"s", "e", "c", "o", "n", "d">>,
      <<"s", "e", "a", "r", "c", "h">>,
      <<"r", "e", "g", "e", "x">>,
      <<"i", "r", "e", "g", "e", "x">> }

\* The lookup of a resolved path: 'exact' when no part is left over
lookup_term(path) == IF Len(path.lookups) = 0 THEN S_exact ELSE path.lookups[1]

\* Query.build_filter on a resolved path: the exception the path raises, ""
\* when the path names a field and a lookup the field takes.  A relation
\* answers a single lookup it does not take with TypeError
\* (get_lookup_constraint), a column with FieldError (build_lookup)
path_error_of(path) ==
    LET term == lookup_term(path)
    IN  IF ~path.found \/ Len(path.lookups) > 1 THEN "FieldError"
        ELSE IF path.kind # "plain"
        THEN IF term \in RelationTerms THEN "" ELSE "TypeError"
        ELSE IF term \in QUERY_TERMS THEN "" ELSE "FieldError"

\* Field.get_prep_lookup: an integer field passes the value of a comparison
\* through int(), and every item of the value of 'in' and 'range'; 'year'
\* passes its value through int() on every field; the value of a pattern
\* lookup, of a date-part lookup other than 'year' and of 'isnull' is left
\* as it is
prep_raises(type, term, value) ==
    IF term \in UnpreparedTerms THEN FALSE
    ELSE IF term = S_in
    THEN type = "int" /\ \E i \in 1..Len(value) : int_raises(value[i])
    ELSE IF term = S_range
    THEN type = "int" /\ \E i \in 1..Len(value) : int_raises(<<value[i]>>)
    ELSE IF term = S_year THEN int_raises(value)
    ELSE type = "int" /\ int_raises(value)

lookup_error_of(path, value) ==
    LET error == path_error_of(path)
    IN  IF error # "" THEN error
        ELSE IF prep_raises(path.type, lookup_term(path), value) THEN "ValueError"
        ELSE ""

\* qs.filter(**{key: value}): the exception the ORM raises, "" when it
\* takes the lookup
lookup_error(key, value) ==
    lookup_error_of(names_to_path(split(key, LOOKUP_SEP), 1, FieldKinds), value)

\* Whether the ORM can resolve a lookup path: fields of the models the path
\* leads through, and at most one lookup that the last field takes
path_resolves(lookup) ==
    path_error_of(names_to_path(split(lookup, LOOKUP_SEP), 1, FieldKinds)) = ""

\* qs.filter(**lookups) raises
lookups_raise(lookups) ==
    \E key \in DOMAIN lookups : lookup_error(key, lookups[key]) # ""

\* The lookups that name the key of the model itself
PkLookups ==
    { S_id, join(LOOKUP_SEP, <<S_id, S_exact>>),
      S_pk, join(LOOKUP_SEP, <<S_pk, S_exact>>) }

pk_matches(pk, value) == key_value(pk) = key_value(value)

\* The rows a set of lookups keeps: a lookup on the primary key keeps the
\* row with that key; the columns of the other lookups are not held, the
\* rows whose columns match them are given as matching
filter_rows(rows, lookups, matching) ==
    {pk \in rows :
        \A key \in DOMAIN lookups :
            IF key \in PkLookups THEN pk_matches(pk, lookups[key])
            ELSE pk \in matching}

\* 'for filter_spec in self.filter_specs: qs = filter_spec.queryset(request,
\* qs)': FieldListFilter.queryset filters by the filter's used_parameters and
\* catches ValidationError only, so that the ValueError of a value that is no
\* integer leaves it.  The exception, or the rows the filters keep
RECURSIVE filter_specs_queryset(_, _, _)
filter_specs_queryset(filter_specs, rows, matching) ==
    IF Len(filter_specs) = 0 THEN Return(rows)
    ELSE LET used == filter_specs[1].used_parameters
         IN  IF lookups_raise(used) THEN Raise("ValueError")
             ELSE filter_specs_queryset(
                      Tail(filter_specs), filter_rows(rows, used, matching), matching)

\* The rest of get_queryset, once get_filters has returned
queryset_of(filters, ordering, matching) ==
    LET filtered == filter_specs_queryset(filters.filter_specs, instances, matching)
    IN  IF filtered.exc # "" THEN filtered
        ELSE IF lookups_raise(filters.lookup_params)
        THEN Raise("IncorrectLookupParameters")     \* from qs.filter
        ELSE IF ordering.exc # "" THEN ordering
        ELSE Return([rows |-> filter_rows(filtered.value, filters.lookup_params,
                                          matching),
                     ordering |-> ordering.value])

\* IndexView.get_queryset: the exception it raises, or the rows and the
\* ordering of the queryset.  matching is the rows whose columns match the
\* lookups that are not on the key
get_queryset(params, keys, admin, with_output, matching) ==
    LET filters == get_filters(params, keys, admin.list_filter,
                               admin.related_fkey_lookups, with_output)
        ordering == get_ordering(dict_get(params, ORDER_VAR), admin.list_display,
                                 admin.ordering, admin.meta_ordering, <<>>)
    IN  IF filters.exc # "" THEN filters
        ELSE queryset_of(filters.value, ordering, matching)

\* The model admin the index view of the machine serves
ModelAdmin ==
    [list_display |-> <<Column(S_a), Column(<<"m">>), Callable(None)>>,
     list_filter |-> <<S_f>>,
     related_fkey_lookups |-> {},
     ordering |-> <<>>,
     meta_ordering |-> <<S_a>>,
     list_per_page |-> 2]

\* IndexView.dispatch once self.queryset is computed, and IndexView.get.
\* queryset is what get_queryset returned or raised; the request of an
\* anonymous user is redirected before get_queryset is called
IndexView_response(r, GET, permitted, queryset) ==
    IF ~r.logged_in THEN Keep(login_redirect(r))
    ELSE LET page_num == page_num_of(dict_get(GET, PAGE_VAR))
             r1 == [r EXCEPT !.query = GET, !.page_num = page_num]
             r2 == check_permission(r1, permitted)
         IN  IF queryset.exc # "" THEN Keep(raise(r1, queryset.exc))
             ELSE IF ~permitted THEN Keep(permission_denied_response(r2))
             ELSE IF r.method # "GET" THEN Keep(http_method_not_allowed(r2))
             ELSE LET count == Cardinality(queryset.value.rows)
                      per_page == ModelAdmin.list_per_page
                  IN  [Keep(render_to_response(
                           [r2 EXCEPT !.ordering = queryset.value.ordering,
                                      !.num_pages = num_pages(count, per_page),
                                      !.page_number =
                                          page_number_shown(page_num, count, per_page)],
                           "index"))
                         EXCEPT !.session = EmptySession]

\* IndexView.dispatch: self.params is the query string without 'p' and 'e'
IndexView_dispatch(r, GET, keys, permitted, with_output, matching) ==
    IndexView_response(r, GET, permitted,
                       get_queryset(dict_without(GET, {PAGE_VAR, ERROR_FLAG}),
                                    keys, ModelAdmin, with_output, matching))

----------------------------------------------------------------------------
\* The machine of the views: one action per URL-routed view

\* Query strings of index requests
S_1 == <<"1">>
IndexQueries ==
    { EmptyDict,
      PAGE_VAR :> S_1,
      (PAGE_VAR :> <<"x">>) @@ (ERROR_FLAG :> S_1) @@ (SEARCH_VAR :> <<"x">>),
      ORDER_VAR :> <<"-", "0", ".", "1">>,
      ORDER_VAR :> <<"2">>,
      S_id :> S_1,
      join(LOOKUP_SEP, <<S_f, S_id, S_exact>>) :> S_1,
      join(LOOKUP_SEP, <<S_f, S_id, S_exact>>) :> <<"x">>,
      (S_r :> S_1) @@ (S_pk :> S_1),
      join(LOOKUP_SEP, <<S_f, S_name>>) :> <<"x">>,
      <<"z">> :> S_1 }

NoOrd == [op |-> "none", o |-> None, list_display |-> <<>>,
          admin_ordering |-> <<>>, meta_ordering |-> <<>>, order_by |-> <<>>,
          field_name |-> Column(<<>>)]

NoPg == [p |-> None, count |-> 0, per_page |-> 1]

NoLk == [op |-> "none", lookup |-> <<>>, value |-> <<>>, list_filter |-> <<>>,
         related_fkey_lookups |-> {}, other_params |-> EmptyDict,
         keys |-> <<>>, with_output |-> {}]

NoPage == [done |-> FALSE, page_num |-> 0, number |-> 0]

\* No call has returned yet
Pending == [done |-> FALSE, exc |-> "", value |-> None]

Done(result) == [done |-> TRUE, exc |-> result.exc, value |-> result.value]

\* The stored rows a database may start with: rows point at stored instances
RelConfigs(stored) ==
    {rows \in { {}, {RelRow(2)}, {RelRow(1), RelRow(2)}, {RelRow(1), RelRow(3)} } :
        \A o \in rows : o.target \in stored}

Init ==
    /\ is_pagemodel \in BOOLEAN
    /\ integer_pk \in BOOLEAN
    /\ is_pagemodel => integer_pk           \* a Page has an integer key
    /\ instances \in SUBSET StorablePks
    /\ rel_objects \in RelConfigs(instances)
    /\ session = EmptySession
    /\ resp = NoResp
    /\ ord_in = NoOrd /\ ord_out = Pending
    /\ pg_in = NoPg /\ pg_out = NoPage
    /\ lk_in = NoLk /\ lk_out = Pending

Apply(e) ==
    /\ resp' = e.resp
    /\ session' = e.session
    /\ instances' = e.instances
    /\ rel_objects' = e.rel_objects
    /\ UNCHANGED <<is_pagemodel, integer_pk, ord_in, ord_out, pg_in, pg_out, lk_in, lk_out>>

\* The query string has a lookup on a column other than the key, which the
\* model admin allows and the ORM resolves
HasColumnLookup(GET) ==
    \E key \in DOMAIN dict_without(GET, {PAGE_VAR, ERROR_FLAG} \cup IGNORED_PARAMS
                                            \cup PkLookups) :
        /\ lookup_allowed(key, GET[key], ModelAdmin.list_filter,
                          ModelAdmin.related_fkey_lookups)
        /\ path_resolves(key)

\* The query string has a parameter of one of the filters
HasFilterParameter(GET) == used_parameters(ModelAdmin.list_filter) \cap DOMAIN GET # {}

\* The orders in which a dict with the given keys can yield them
Orders(keys) ==
    {order \in [1..Cardinality(keys) -> keys] :
        \A i, j \in DOMAIN order : order[i] = order[j] => i = j}

\* What get_queryset can return or raise for a query string.
\* keys: the order of the lookup parameters in the query string.
\* with_output: the filters that have output (spec.has_output()); every
\* filter when the query string has no parameter of a filter.
\* matching: the stored rows whose columns match the lookups of the query
\* string that are not on the key; every row when there is no such lookup
Querysets(GET) ==
    {get_queryset(dict_without(GET, {PAGE_VAR, ERROR_FLAG}),
                  keys, ModelAdmin, with_output, matching) :
        keys \in Orders(DOMAIN dict_without(GET, {PAGE_VAR, ERROR_FLAG}
                                                     \cup IGNORED_PARAMS)),
        with_output \in IF HasFilterParameter(GET)
                        THEN SUBSET Elements(ModelAdmin.list_filter)
                        ELSE {Elements(ModelAdmin.list_filter)},
        matching \in IF HasColumnLookup(GET) THEN SUBSET instances ELSE {instances}}

\* An index request: IndexView.dispatch, with the queryset it computes
IndexRequest ==
    \E GET \in IndexQueries :
        \E querysets \in {Querysets(GET)} :
            \E method \in Methods, logged_in, permitted \in BOOLEAN :
                \E queryset \in querysets :
                    Apply(IndexView_response(
                              Request("index", method, <<>>, logged_in),
                              GET, permitted, queryset))

\* The outcomes of a request to an object-specific view: the inputs a request
\* never reads do not tell its outcomes apart
InspectRequest ==
    \E object_id \in ObjectIds, method \in Methods, logged_in \in BOOLEAN :
        LET r == Request("inspect", method, object_id, logged_in)
        IN  \E e \in {ObjectSpecificView_init(r, InspectView_dispatch(r, permitted)) :
                          permitted \in BOOLEAN} :
                Apply(e)

\* form.save() of a valid create form stores an instance under a new key
CreateRequest ==
    \E method \in Methods, logged_in \in BOOLEAN :
        LET r == Request("create", method, <<>>, logged_in)
        IN  \E e \in {CreateView_dispatch(r, permitted, valid_parents,
                                          new_pk # None, new_pk) :
                          permitted \in BOOLEAN,
                          valid_parents \in IF is_pagemodel THEN SUBSET ParentPages
                                            ELSE {{}},
                          new_pk \in IF is_pagemodel THEN {None}
                                     ELSE (StorablePks \ instances) \cup {None}} :
                Apply(e)

\* A request to the parent chooser: the pages the user may add under, and
\* what the form answers to the posted data
ChooseParentRequest ==
    \E method \in Methods, logged_in \in BOOLEAN :
        LET r == Request("choose_parent", method, <<>>, logged_in)
        IN  \E e \in {ChooseParentView_dispatch(r, permitted, valid_parents,
                                                parent # None, parent) :
                          permitted \in BOOLEAN,
                          valid_parents \in SUBSET ParentPages,
                          parent \in ParentPages \cup {None}} :
                Apply(e)

EditRequest ==
    \E object_id \in ObjectIds, method \in Methods, logged_in \in BOOLEAN :
        LET r == Request("edit", method, object_id, logged_in)
        IN  \E e \in {ObjectSpecificView_init(
                              r, EditView_dispatch(r, permitted, is_valid)) :
                          permitted \in BOOLEAN, is_valid \in BOOLEAN} :
                Apply(e)

ConfirmDeleteRequest ==
    \E object_id \in ObjectIds, method \in Methods, logged_in \in BOOLEAN :
        LET r == Request("confirm_delete", method, object_id, logged_in)
        IN  \E e \in {ObjectSpecificView_init(
                              r, ConfirmDeleteView_dispatch(r, permitted, post_empty)) :
                          permitted \in BOOLEAN, post_empty \in BOOLEAN} :
                Apply(e)

UnpublishRequest ==
    \E object_id \in ObjectIds, method \in Methods, logged_in \in BOOLEAN :
        LET r == Request("unpublish", method, object_id, logged_in)
        IN  \E e \in {ObjectSpecificView_init(
                              r, UnpublishRedirectView_dispatch(r, permitted)) :
                          permitted \in BOOLEAN} :
                Apply(e)

CopyRequest ==
    \E object_id \in ObjectIds, method \in Methods, logged_in \in BOOLEAN :
        LET r == Request("copy", method, object_id, logged_in)
        IN  \E e \in {ObjectSpecificView_init(
                              r, CopyRedirectView_dispatch(r, permitted)) :
                          permitted \in BOOLEAN} :
                Apply(e)

Next ==
    \/ IndexRequest
    \/ InspectRequest
    \/ CreateRequest
    \/ ChooseParentRequest
    \/ EditRequest
    \/ ConfirmDeleteRequest
    \/ UnpublishRequest
    \/ CopyRequest

Spec == Init /\ [][Next]_vars

----------------------------------------------------------------------------
\* Properties of the views

\* p is written as an integer: between surrounding whitespace, an optional
\* sign and digits, where single '_' may stand between digits
LooksLikeInt(p) ==
    /\ p # None
    /\ \E a \in 1..Len(p), b \in 1..Len(p) :
          /\ a <= b
          /\ \A i \in 1..(a - 1) : p[i] \in Whitespace
          /\ \A i \in (b + 1)..Len(p) : p[i] \in Whitespace
          /\ LET first == IF p[a] \in {"-", "+"} THEN a + 1 ELSE a
             IN  /\ first <= b
                 /\ p[first] \in Digits /\ p[b] \in Digits
                 /\ \A i \in first..b : p[i] \in Digits \/ p[i] = "_"
                 /\ \A i \in first..(b - 1) : ~(p[i] = "_" /\ p[i + 1] = "_")

\* Two keys are the same key: as integers when the key field is an integer
\* field, as strings otherwise
SameKey(a, b) ==
    IF integer_pk THEN LooksLikeInt(a) /\ LooksLikeInt(b) /\ int(a) = int(b)
    ELSE a = b

\* The keys an object id names
TargetPks(object_id) == {pk \in PkDomain : SameKey(pk, object_id)}

ObjectViews == {"inspect", "edit", "confirm_delete", "unpublish", "copy"}

\* The lookup parameters of a query string: everything but p, e, o, ot and q
LookupParams(GET) == dict_without(GET, {PAGE_VAR, ERROR_FLAG} \cup IGNORED_PARAMS)

\* A query string with a lookup the model admin does not allow, or with a
\* lookup the ORM cannot resolve
HasBadLookup(GET) ==
    \E key \in DOMAIN LookupParams(GET) :
        \/ ~lookup_allowed(key, GET[key], ModelAdmin.list_filter,
                           ModelAdmin.related_fkey_lookups)
        \/ ~path_resolves(key)

\* C1: an index request whose query string carries a disallowed or an invalid
\* lookup never ends with DisallowedModelAdminLookup or
\* IncorrectLookupParameters leaving IndexView.dispatch: it is answered with
\* a page, a redirect or a 404.
C1_LookupErrorsAreCaught ==
    (resp.view = "index" /\ HasBadLookup(resp.query))
        => resp.outcome \in {"render", "redirect", "http404", "method_not_allowed"}

\* The rows that protect instance pk from deletion
ProtectingRows(pk) ==
    {o \in rel_objects : o.target = pk /\ Relations[o.rel].on_delete = "PROTECT"}

\* resp answers a POST that reached ConfirmDeleteView.post
ReachedDeletePost ==
    /\ resp.view = "confirm_delete" /\ resp.method = "POST"
    /\ resp.perm_ok /\ ~is_pagemodel

\* C2: a POST to the delete-confirm view of a non-page model that hits a
\* protected-delete conflict leaves the instance stored, issues an error
\* message, does not redirect, and renders the confirmation page with
\* error_protected set and linked_objects being exactly the rows related to
\* the instance through PROTECT relations.
C2_ProtectedDeleteIsCaught ==
    \A pk \in TargetPks(quote(resp.object_id)) :
        (ReachedDeletePost /\ ~resp.post_empty /\ ProtectingRows(pk) # {})
            => /\ pk \in instances
               /\ ~resp.deleted
               /\ resp.msgs = <<"error">>
               /\ resp.outcome = "render" /\ resp.template = "confirm_delete"
               /\ resp.error_protected
               /\ Elements(resp.linked_objects) = ProtectingRows(pk)
               /\ Len(resp.linked_objects) = Cardinality(ProtectingRows(pk))

\* C2 happens: a delete POST refused because rows of two PROTECT relations
\* point at the instance
C2_Witness ==
    /\ ReachedDeletePost /\ ~resp.post_empty
    /\ resp.error_protected
    /\ Len(resp.linked_objects) = 2

\* C3: in every view, a request whose permission check is evaluated and fails
\* is answered with the permission-denied response (an error message and a
\* redirect to the admin home) and saves no form, deletes nothing, leaves the
\* session alone and redirects to no page flow.
C3_DeniedRequestsDoNothing ==
    [][ (resp'.perm_checked /\ ~resp'.perm_ok)
            => /\ resp'.outcome = "redirect" /\ resp'.target = "wagtailadmin_home"
               /\ resp'.msgs = <<"error">>
               /\ ~resp'.form_saved /\ ~resp'.deleted /\ ~resp'.session_written
               /\ instances' = instances /\ rel_objects' = rel_objects
               /\ session' = session ]_vars

\* C3 happens: a denied POST to the delete-confirm view of a page model whose
\* instance is stored
C3_Witness ==
    /\ resp.view = "confirm_delete" /\ resp.method = "POST"
    /\ resp.perm_checked /\ ~resp.perm_ok
    /\ is_pagemodel
    /\ resp.outcome = "redirect"

\* C4: in the object-specific views, a request for an object id that is the
\* key of no stored instance ends in a 404, with no permission check, no
\* session write, no redirect to a page flow, nothing deleted and nothing
\* saved.
C4_MissingObjectIs404 ==
    [][ (resp'.view \in ObjectViews /\ TargetPks(resp'.object_id) \cap instances = {})
            => /\ resp'.outcome = "http404"
               /\ ~resp'.perm_checked /\ ~resp'.session_written
               /\ ~resp'.form_saved /\ ~resp'.deleted
               /\ instances' = instances /\ session' = session ]_vars

PageFlowOf(view) ==
    CASE view = "edit" -> "pages_edit"
      [] view = "confirm_delete" -> "pages_delete"
      [] view = "unpublish" -> "pages_unpublish"
      [] view = "copy" -> "pages_copy"

SessionPrimed ==
    /\ "return_to_index_url" \in DOMAIN session
    /\ session["return_to_index_url"] = IndexUrl

\* C5: for a page model the create, edit and delete-confirm views never
\* render their own page and never save or delete; once the permission check
\* has passed they store the index URL in the session under
\* 'return_to_index_url' and redirect into the page flows (page add or
\* choose-parent for create, page edit, page delete); the unpublish and copy
\* views likewise store the index URL and redirect to their page flow.
C5_PageModelsGoToPageFlows ==
    /\ (is_pagemodel /\ resp.view \in {"create", "edit", "confirm_delete"})
           => /\ resp.outcome # "render"
              /\ ~resp.form_saved /\ ~resp.deleted
    /\ (is_pagemodel /\ resp.view = "create" /\ resp.perm_ok)
           => /\ resp.session_written /\ SessionPrimed
              /\ resp.outcome = "redirect"
              /\ resp.target \in {"pages_add", "choose_parent"}
    /\ (resp.view \in {"edit", "confirm_delete"} /\ is_pagemodel /\ resp.perm_ok)
           => /\ resp.session_written /\ SessionPrimed
              /\ resp.outcome = "redirect"
              /\ resp.target = PageFlowOf(resp.view)
              /\ resp.target_arg = resp.object_id
    /\ (resp.view \in {"unpublish", "copy"} /\ resp.perm_ok)
           => /\ resp.session_written /\ SessionPrimed
              /\ resp.outcome = "redirect"
              /\ resp.target = PageFlowOf(resp.view)
              /\ resp.target_arg = resp.object_id

\* C5 happens: a permitted edit request for a stored page
C5_Witness ==
    /\ is_pagemodel
    /\ resp.view = "edit" /\ resp.perm_ok
    /\ resp.target = "pages_edit"

\* C6: every POST that reaches ConfirmDeleteView.post, whatever its POST data
\* and also with an empty body, ends with a redirect to the index or with a
\* rendered confirmation page, never with an unhandled error.
C6_DeletePostAlwaysAnswers ==
    ReachedDeletePost
        => \/ resp.outcome = "redirect" /\ resp.target = "index"
           \/ resp.outcome = "render" /\ resp.template = "confirm_delete"

\* C11: CreateView on a page model, for a user with add permission, redirects
\* to the page-add flow under the user's valid parent page when there is
\* exactly one, and to the choose-parent view for any other number of valid
\* parents.  A POST to ChooseParentView builds its form on exactly the
\* user's valid parent pages; it redirects to the page-add flow under the
\* parent the form selected when the form is valid, and only then, and
\* renders the chooser again otherwise.
C11_CreateRoutesByParentCount ==
    /\ (is_pagemodel /\ resp.view = "create" /\ resp.perm_ok)
           => /\ resp.outcome = "redirect"
              /\ IF Cardinality(resp.valid_parents) = 1
                 THEN /\ resp.target = "pages_add"
                      /\ resp.target_arg \in resp.valid_parents
                 ELSE resp.target = "choose_parent"
    /\ (resp.view = "choose_parent" /\ resp.method = "POST"
            /\ resp.perm_ok /\ resp.logged_in)
           => /\ resp.form_parents = resp.valid_parents
              /\ IF resp.form_is_valid
                 THEN /\ resp.outcome = "redirect" /\ resp.target = "pages_add"
                      /\ resp.chosen \in ParentPages
                      /\ resp.target_arg = resp.chosen
                 ELSE resp.outcome = "render" /\ resp.template = "choose_parent"

\* C11 happens: a user with two valid parent pages, whose create request was
\* sent to the chooser and primed the session, posts a valid choice and is
\* sent to the page-add flow under the chosen parent
C11_Witness ==
    /\ is_pagemodel /\ SessionPrimed
    /\ resp.view = "choose_parent" /\ resp.method = "POST"
    /\ resp.perm_ok /\ resp.logged_in
    /\ Cardinality(resp.form_parents) = 2
    /\ resp.form_is_valid /\ resp.chosen = <<"1", "1">>
    /\ resp.outcome = "redirect" /\ resp.target = "pages_add"
    /\ resp.target_arg = <<"1", "1">>

----------------------------------------------------------------------------
\* The ordering functions of the index view on their own: the initial state
\* draws a call and its arguments, the actions make the call

\* Longest value of the 'o' parameter
MaxOLen == 3

\* Most columns in list_display
MaxCols == 2

OAlphabet == {"0", "1", "-", ".", "x"}

\* Values of the 'o' parameter; None when the query string has no 'o'
OValues == {None} \cup StringsUpTo(OAlphabet, MaxOLen)

\* Columns list_display is made of: a model field, a model admin method with
\* admin_order_field '-a', a callable without admin_order_field, and a name
\* that is no attribute of anything
DisplayColumns == {Column(S_a), Column(<<"m">>), Callable(None), Column(<<"z">>)}

\* All sequences over S of length 0..n
RECURSIVE SeqsUpTo(_, _)
SeqsUpTo(S, n) ==
    IF n = 0 THEN {<<>>}
    ELSE LET shorter == SeqsUpTo(S, n - 1)
         IN  shorter \cup {Append(t, x) : t \in shorter, x \in S}

\* Arguments of get_ordering_field
FieldNameArgs ==
    DisplayColumns \cup
    {Column(S_id), Column(S_f), Column(S_f_id), Callable(S_a), Callable(Minus(S_a)),
     Column(<<"n">>), Column(<<"t">>), Column(<<"u">>)}

AdminOrderings == {<<>>, <<S_pk, S_a>>}

MetaOrderings == {<<>>, <<Minus(S_a)>>}

QueryOrderBys == {<<>>, <<S_a>>, <<Minus(S_id)>>}

OrderingCalls ==
    [op : {"get_ordering"}, o : OValues,
     list_display : SeqsUpTo(DisplayColumns, MaxCols),
     admin_ordering : AdminOrderings, meta_ordering : MetaOrderings,
     order_by : QueryOrderBys, field_name : {Column(<<>>)}]

OrderingFieldCalls ==
    {[NoOrd EXCEPT !.op = "get_ordering_field", !.field_name = f] : f \in FieldNameArgs}

InitOrdering ==
    /\ ord_in \in OrderingCalls \cup OrderingFieldCalls
    /\ ord_out = Pending
    /\ is_pagemodel = FALSE /\ integer_pk = FALSE /\ instances = {} /\ rel_objects = {}
    /\ session = EmptySession /\ resp = NoResp
    /\ pg_in = NoPg /\ pg_out = NoPage
    /\ lk_in = NoLk /\ lk_out = Pending

GetOrdering ==
    /\ ord_in.op = "get_ordering"
    /\ ~ord_out.done
    /\ ord_out' = Done(get_ordering(ord_in.o, ord_in.list_display,
                                    ord_in.admin_ordering, ord_in.meta_ordering,
                                    ord_in.order_by))
    /\ UNCHANGED <<instances, rel_objects, session, is_pagemodel, integer_pk,
                   resp,
                   ord_in, pg_in, pg_out, lk_in, lk_out>>

GetOrderingField ==
    /\ ord_in.op = "get_ordering_field"
    /\ ~ord_out.done
    /\ ord_out' = Done(get_ordering_field(ord_in.field_name))
    /\ UNCHANGED <<instances, rel_objects, session, is_pagemodel, integer_pk,
                   resp,
                   ord_in, pg_in, pg_out, lk_in, lk_out>>

NextOrdering == GetOrdering \/ GetOrderingField

SpecOrdering == InitOrdering /\ [][NextOrdering]_vars

----------------------------------------------------------------------------
\* Pagination of the index view on its own

\* Longest value of the 'p' parameter
MaxPLen == 2

\* Most rows in the result set
MaxCount == 5

\* Largest list_per_page
MaxPerPage == 3

PAlphabet == {"-", "0", "1", "2", "x", " ", "\\x0b", "\\u0661"}

PValues == {None} \cup StringsUpTo(PAlphabet, MaxPLen)

InitPaging ==
    /\ pg_in \in [p : PValues, count : 0..MaxCount, per_page : 1..MaxPerPage]
    /\ pg_out = NoPage
    /\ is_pagemodel = FALSE /\ integer_pk = FALSE /\ instances = {} /\ rel_objects = {}
    /\ session = EmptySession /\ resp = NoResp
    /\ ord_in = NoOrd /\ ord_out = Pending
    /\ lk_in = NoLk /\ lk_out = Pending

\* dispatch reads 'p', get_context_data picks the page
Paginate ==
    /\ ~pg_out.done
    /\ pg_out' = [done |-> TRUE,
                  page_num |-> page_num_of(pg_in.p),
                  number |-> page_number_shown(page_num_of(pg_in.p),
                                               pg_in.count, pg_in.per_page)]
    /\ UNCHANGED <<instances, rel_objects, session, is_pagemodel, integer_pk,
                   resp,
                   ord_in, ord_out, pg_in, lk_in, lk_out>>

NextPaging == Paginate

SpecPaging == InitPaging /\ [][NextPaging]_vars

----------------------------------------------------------------------------
\* The lookup gate of the index view on its own: the initial state draws a
\* lookup parameter and the model admin's configuration, the actions call
\* lookup_allowed and get_filters

\* Most '__'-separated parts in a lookup
MaxLookupParts == 3

\* Parts lookups are made of: fields of the model (id, a, f, r), fields of
\* the related model only (g, name) and a query term
LookupPartNames == {S_id, S_a, S_f, S_r, S_g, S_name, S_exact}

Lookups ==
    {join(LOOKUP_SEP, parts) :
        parts \in SeqsUpTo(LookupPartNames, MaxLookupParts) \ {<<>>}}

LookupValues == {S_1, <<"x">>}

ListFilters ==
    { <<>>, <<S_f>>, <<join(LOOKUP_SEP, <<S_f, S_name>>)>>,
      <<join(LOOKUP_SEP, <<S_f, S_g>>)>>,
      <<join(LOOKUP_SEP, <<S_f, S_g, S_name>>)>> }

\* url_params_from_lookup_dict of the model's related_fkey_lookups
RelatedFkeyLookups == { {}, {<<join(LOOKUP_SEP, <<S_r, S_name>>), <<"x">>>>} }

\* What else the query string carries: nothing, the ignored parameters, or a
\* lookup on a field of the model
OtherParams ==
    { EmptyDict,
      (ORDER_VAR :> S_1) @@ (ORDER_TYPE_VAR :> <<"x">>) @@ (SEARCH_VAR :> <<"x">>),
      S_a :> S_1,
      S_r :> S_1 }

\* self.params of a get_filters call
CallParams(call) == (call.lookup :> call.value) @@ call.other_params

LookupAllowedCalls ==
    [op : {"lookup_allowed"}, lookup : Lookups, value : LookupValues,
     list_filter : ListFilters, related_fkey_lookups : RelatedFkeyLookups,
     other_params : {EmptyDict}, keys : {<<>>}, with_output : {{}}]

GetFiltersCalls ==
    [op : {"get_filters"}, lookup : Lookups, value : LookupValues,
     list_filter : ListFilters, related_fkey_lookups : RelatedFkeyLookups,
     other_params : OtherParams]

\* A get_filters call also draws the order of the lookup parameters in the
\* query string and the filters that have output
GetFiltersInputs(call) ==
    {[keys |-> keys, with_output |-> with_output] @@ call :
        keys \in Orders(DOMAIN get_filters_params(CallParams(call))),
        with_output \in SUBSET Elements(call.list_filter)}

LookupCallParams == CallParams(lk_in)

InitLookup ==
    /\ \/ lk_in \in LookupAllowedCalls
       \/ \E call \in GetFiltersCalls : lk_in \in GetFiltersInputs(call)
    /\ lk_out = Pending
    /\ is_pagemodel = FALSE /\ integer_pk = FALSE /\ instances = {} /\ rel_objects = {}
    /\ session = EmptySession /\ resp = NoResp
    /\ ord_in = NoOrd /\ ord_out = Pending
    /\ pg_in = NoPg /\ pg_out = NoPage

LookupAllowed ==
    /\ lk_in.op = "lookup_allowed"
    /\ ~lk_out.done
    /\ lk_out' = Done(Return(lookup_allowed(lk_in.lookup, lk_in.value,
                                            lk_in.list_filter,
                                            lk_in.related_fkey_lookups)))
    /\ UNCHANGED <<instances, rel_objects, session, is_pagemodel, integer_pk,
                   resp,
                   ord_in, ord_out, pg_in, pg_out, lk_in>>

GetFilters ==
    /\ lk_in.op = "get_filters"
    /\ ~lk_out.done
    /\ lk_out' = Done(get_filters(LookupCallParams, lk_in.keys, lk_in.list_filter,
                                  lk_in.related_fkey_lookups, lk_in.with_output))
    /\ UNCHANGED <<instances, rel_objects, session, is_pagemodel, integer_pk,
                   resp,
                   ord_in, ord_out, pg_in, pg_out, lk_in>>

NextLookup == LookupAllowed \/ GetFilters

SpecLookup == InitLookup /\ [][NextLookup]_vars

----------------------------------------------------------------------------
\* Properties of the lookup gate

\* The relation fields of a model
IsRelation(kinds, name) == name \in DOMAIN kinds /\ kinds[name] # "plain"

\* parts[i..n] are relation fields, each a field of the model the one
\* before it leads to
RECURSIVE RelationsFrom(_, _, _, _)
RelationsFrom(parts, i, n, kinds) ==
    i > n \/ (IsRelation(kinds, parts[i])
                 /\ RelationsFrom(parts, i + 1, n, RelatedFieldKinds))

\* Every part of a lookup but its last is a relation field that exists on
\* the model reached so far
TraversesRelations(parts) == RelationsFrom(parts, 1, Len(parts) - 1, FieldKinds)

\* A lookup without its trailing query term and without the key name of the
\* model its relations lead to
ReducedLookup(lookup) ==
    LET parts0 == split(lookup, LOOKUP_SEP)
        parts1 == IF Len(parts0) > 1 /\ Last(parts0) \in QUERY_TERMS
                  THEN Front(parts0) ELSE parts0
    IN  IF Len(parts1) > 1 /\ TraversesRelations(parts1) /\ Last(parts1) = S_id
        THEN Front(parts1) ELSE parts1

\* C12: a lookup that reduces to a single part is allowed; a lookup of two or
\* more parts that traverses existing relation fields is allowed only if the
\* reduced lookup is in list_filter or (lookup, value) is one of the model's
\* related_fkey_lookups; get_filters checks every parameter but o, ot and q
\* and raises DisallowedModelAdminLookup, before anything else, exactly when
\* one of them is not allowed.
C12_LookupGate ==
    /\ (lk_in.op = "lookup_allowed" /\ lk_out.done)
           => LET reduced == ReducedLookup(lk_in.lookup)
              IN  /\ Len(reduced) = 1 => lk_out.value
                  /\ (Len(reduced) >= 2 /\ TraversesRelations(reduced) /\ lk_out.value)
                         => \/ join(LOOKUP_SEP, reduced) \in Elements(lk_in.list_filter)
                            \/ <<lk_in.lookup, lk_in.value>>
                                   \in lk_in.related_fkey_lookups
    /\ (lk_in.op = "get_filters" /\ lk_out.done)
           => LET params == LookupCallParams
                  checked == (DOMAIN params) \ IGNORED_PARAMS
              IN  (lk_out.exc = "DisallowedModelAdminLookup")
                      <=> \E key \in checked :
                             ~lookup_allowed(key, params[key], lk_in.list_filter,
                                             lk_in.related_fkey_lookups)

----------------------------------------------------------------------------
\* Properties of pagination and ordering

\* Page n exists in a result set of count rows shown per_page at a time:
\* page 1 always does, a later page does when rows are left for it
ValidPage(n, count, per_page) == n >= 1 /\ (n = 1 \/ (n - 1) * per_page < count)

\* C7: a missing or non-integer 'p' counts as 0; the page shown is page p + 1
\* when that is a page of the paginator and the first page otherwise, so the
\* page shown is always a page of the paginator.
C7_PageShownIsValid ==
    pg_out.done =>
        LET p == IF LooksLikeInt(pg_in.p) THEN int(pg_in.p) ELSE 0
        IN  /\ pg_out.page_num = p
            /\ pg_out.number = IF ValidPage(p + 1, pg_in.count, pg_in.per_page)
                               THEN p + 1 ELSE 1
            /\ ValidPage(pg_out.number, pg_in.count, pg_in.per_page)

\* C7 happens: 'p' names a page beyond the last one and the first is shown
C7_Witness ==
    /\ pg_out.done
    /\ pg_in.p = <<"2">> /\ pg_in.count = 4 /\ pg_in.per_page = 2
    /\ pg_out.number = 1

PkFields == {S_pk, Minus(S_pk), pk_name, Minus(pk_name)}

OrderingReturned ==
    ord_in.op = "get_ordering" /\ ord_out.done /\ ord_out.exc = ""

\* C8: the list get_ordering returns has the primary key as its last
\* ordering field.
C8_PkIsLastOrderingField ==
    OrderingReturned
        => Len(ord_out.value) > 0 /\ Last(ord_out.value) \in PkFields

IsPrefix(a, b) == Len(a) <= Len(b) /\ SubSeq(b, 1, Len(a)) = a

\* The fields an entry of 'o' can stand for: the ordering field of a column
\* of list_display, as it is or reversed
ColumnFields(list_display) ==
    UNION {LET got == get_ordering_field(list_display[i])
           IN  IF got.exc # "" \/ got.value = None THEN {}
               ELSE {got.value, Minus(got.value), DropFirst(got.value)}
           : i \in 1..Len(list_display)}

\* C9: when 'o' is given the default ordering plays no part: the result is
\* what it is without any default ordering, namely at most one field per
\* entry of 'o', then the queryset's order_by, then the pk guard.  When 'o'
\* is absent the result starts with the model admin's ordering if that is
\* not empty, else with the model's Meta ordering.
C9_ManualOrderingOverrides ==
    OrderingReturned =>
        LET value == ord_out.value
            by == ord_in.order_by
        IN  IF ord_in.o # None
            THEN /\ value = get_ordering(ord_in.o, ord_in.list_display,
                                         <<>>, <<>>, by).value
                 /\ \E n \in 0..Len(split(ord_in.o, <<".">>)) :
                       /\ n + Len(by) <= Len(value)
                       /\ \A i \in 1..n : value[i] \in ColumnFields(ord_in.list_display)
                       /\ SubSeq(value, n + 1, n + Len(by)) = by
                       /\ SubSeq(value, n + Len(by) + 1, Len(value))
                              \in {<<>>, <<Minus(S_pk)>>}
            ELSE IsPrefix(IF ord_in.admin_ordering # <<>> THEN ord_in.admin_ordering
                          ELSE ord_in.meta_ordering, value)

\* C9 happens: 'o' picks a column while the model admin has an ordering
C9_Witness ==
    /\ OrderingReturned
    /\ ord_in.o = <<"-", "0">> /\ ord_in.list_display = <<Column(S_a)>>
    /\ ord_in.admin_ordering = <<S_pk, S_a>>
    /\ ord_in.order_by = <<S_a>>
    /\ ord_out.value = <<Minus(S_a), S_a, Minus(S_pk)>>

\* C10: get_ordering_field returns the name of the matching model field, or
\* the admin_order_field of the matching callable, model admin attribute or
\* model attribute, and None, without raising, when nothing matches.
C10_OrderingFieldNeverRaises ==
    (ord_in.op = "get_ordering_field" /\ ord_out.done)
        => LET f == ord_in.field_name
           IN  /\ ord_out.exc = ""
               /\ ord_out.value =
                      IF ~f.callable /\ f.name \in FieldNames
                      THEN IF f.name = S_f_id THEN S_f ELSE f.name
                      ELSE IF f.callable THEN f.admin_order_field
                      ELSE IF f.name \in DOMAIN AdminAttrs THEN AdminAttrs[f.name]
                      ELSE IF f.name \in DOMAIN ModelAttrs THEN ModelAttrs[f.name]
                      ELSE None

\* The ordering field get_ordering_field is documented to give for a column:
\* the model field's name, the admin_order_field of the callable or
\* attribute, None when there is none
DocumentedOrderingField(f) ==
    IF ~f.callable /\ f.name \in FieldNames
    THEN IF f.name = S_f_id THEN S_f ELSE f.name
    ELSE IF f.callable THEN f.admin_order_field
    ELSE IF f.name \in DOMAIN AdminAttrs THEN AdminAttrs[f.name]
    ELSE IF f.name \in DOMAIN ModelAttrs THEN ModelAttrs[f.name]
    ELSE None

\* The text of an entry of 'o' after its last '-'
IndexPart(entry) == rpartition(entry, "-")[3]

\* An entry of 'o' that contributes nothing: its index part is no integer,
\* or no column of list_display, or the column has no ordering field
SkippedEntry(entry, list_display) ==
    \/ ~LooksLikeInt(IndexPart(entry))
    \/ int(IndexPart(entry)) >= Len(list_display)
    \/ DocumentedOrderingField(list_display[int(IndexPart(entry)) + 1]) = None

\* The entries of a list that are not skipped, in their order
RECURSIVE KeptEntries(_, _)
KeptEntries(entries, list_display) ==
    IF entries = <<>> THEN <<>>
    ELSE (IF SkippedEntry(Head(entries), list_display) THEN <<>>
          ELSE <<Head(entries)>>)
         \o KeptEntries(Tail(entries), list_display)

\* C13: get_ordering skips, without raising, every entry of 'o' that is
\* malformed, out of range or names a column with no ordering field: it
\* returns what it returns for 'o' without the skipped entries.  The index
\* an entry gives is never negative.
C13_BadEntriesAreSkipped ==
    (ord_in.op = "get_ordering" /\ ord_out.done /\ ord_in.o # None)
        => LET entries == split(ord_in.o, <<".">>)
               kept == KeptEntries(entries, ord_in.list_display)
           IN  /\ ord_out.exc = ""
               /\ ord_out.value =
                      get_ordering(join(<<".">>, kept), ord_in.list_display,
                                   ord_in.admin_ordering, ord_in.meta_ordering,
                                   ord_in.order_by).value
               /\ \A i \in 1..Len(entries) :
                      ~int_raises(IndexPart(entries[i]))
                          => int(IndexPart(entries[i])) >= 0

\* An entry of 'o' written as 'N' or '-N'
PlainEntry(entry) ==
    /\ Len(entry) > 0
    /\ IsDigits(IF entry[1] = "-" THEN Tail(entry) ELSE entry)

\* The reverse of an ordering field
Reversed(f) == IF startswith(f, "-") THEN DropFirst(f) ELSE Minus(f)

\* What an entry 'N' or '-N' stands for, for a column whose ordering field is f
EntryField(entry, list_display) ==
    LET f == DocumentedOrderingField(list_display[int(IndexPart(entry)) + 1])
    IN  IF entry[1] = "-" THEN Reversed(f) ELSE f

\* C14: when every entry of 'o' is a valid 'N' or '-N', the returned list
\* starts with one field per entry: the column's ordering field f for 'N',
\* the reverse of f for '-N' ('-x' for 'x', 'x' for '-x').  No field of a
\* returned list starts with two '-'.
C14_EntryDirection ==
    (OrderingReturned /\ ord_in.o # None)
        => LET entries == split(ord_in.o, <<".">>)
               value == ord_out.value
           IN  /\ (\A i \in 1..Len(entries) :
                        /\ PlainEntry(entries[i])
                        /\ ~SkippedEntry(entries[i], ord_in.list_display))
                      => /\ Len(value) >= Len(entries)
                         /\ \A i \in 1..Len(entries) :
                                value[i] = EntryField(entries[i], ord_in.list_display)
               /\ \A i \in 1..Len(value) :
                      ~(Len(value[i]) >= 2 /\ value[i][1] = "-" /\ value[i][2] = "-")

\* C14 happens: '-1' reverses a column whose admin_order_field is '-a'
C14_Witness ==
    /\ OrderingReturned
    /\ ord_in.o = <<"-", "1">>
    /\ ord_in.list_display = <<Column(S_a), Column(<<"m">>)>>
    /\ ord_out.value[1] = S_a

\* The list get_ordering has built when it reaches the pk guard: the default
\* ordering or the fields of 'o', then the queryset's order_by
OrderingBeforeGuard ==
    (IF ord_in.o = None
     THEN get_default_ordering(ord_in.admin_ordering, ord_in.meta_ordering)
     ELSE order_params_fields(split(ord_in.o, <<".">>), ord_in.list_display).value)
    \o ord_in.order_by

\* C15: a call of get_ordering that returns gives a list that names the
\* primary key ('pk', '-pk', the pk field or its '-' form): the list built
\* so far with '-pk' appended as its last element when it names none of the
\* four, and the list built so far, with nothing appended, when it does.  The
\* call leaves the request parameters as they were.
C15_PkGuardAppendsOnlyWhenMissing ==
    [][ (ord_in.op = "get_ordering" /\ ~ord_out.done
            /\ ord_out'.done /\ ord_out'.exc = "")
            => /\ Elements(ord_out'.value) \cap PkFields # {}
               /\ IF Elements(OrderingBeforeGuard) \cap PkFields = {}
                  THEN /\ ord_out'.value = Append(OrderingBeforeGuard, Minus(S_pk))
                       /\ Last(ord_out'.value) = Minus(S_pk)
                  ELSE ord_out'.value = OrderingBeforeGuard
               /\ ord_in' = ord_in ]_vars

\* C15 happens: the ordering already names the primary key and is returned
\* as it is
C15_Witness ==
    /\ OrderingReturned
    /\ ord_in.o = None /\ ord_in.admin_ordering = <<S_pk, S_a>>
    /\ ord_in.order_by = <<S_a>>
    /\ ord_out.value = <<S_pk, S_a, S_a>>

====
